---- MODULE Spec2Model ----
(***************************************************************************)
(* Session acquisition and rate-governed fetch pipeline of the NSE PCR     *)
(* tracker, in the variant that has the rate governor and the failure      *)
(* counter (src/unnamed/part_001): the shared sessionData and              *)
(* lastRequestTime, and the callers of fetchOptionChain.  Spec has one     *)
(* caller at a time, as in the sequential loop of autoFetchJob; SpecConc   *)
(* has the cron job and a GET /api/pcr/:symbol handler calling             *)
(* concurrently.  One action is one synchronous run of the JavaScript code *)
(* between two suspension points (an await on a timer, on the network, or  *)
(* on an async function's promise).                                        *)
(*                                                                         *)
(* Time is the millisecond clock now (Date.now()).  It advances only to    *)
(* the next moment at which something is due (a timer, a response, a cron  *)
(* tick) and only while no promise continuation is ready to run; what is   *)
(* due at the same moment is served in any order.                          *)
(***************************************************************************)
EXTENDS Integers, Sequences, FiniteSets, TLC

VARIABLES
  now,              \* Date.now(), ms
  sessionData,      \* part_001:15-20 (ttl is the constant SESSION_TTL)
  lastRequestTime,  \* part_001:23
  task,             \* per caller: the frame of its fetchOptionChain call
  net               \* the callers' side: when the last upstream request was
                    \* issued, calls made, calls that failed in a row, the
                    \* position of the scheduled job, the last answer of
                    \* the HTTP handler

vars == <<now, sessionData, lastRequestTime, task, net>>

----------------------------------------------------------------------------
\* Program constants (src/unnamed/part_001)

MIN_REQUEST_GAP == 8000
SESSION_TTL == 5 * 60 * 1000
FAILURE_THRESHOLD == 3
COOLDOWN_MS == 60000
HOME_DELAY == 4000
QUOTE_DELAY == 3000
CHAIN_DELAY == 2000
BACKOFF_BASE == 15000
BACKOFF_JITTER == 5000
CRON_PERIOD == 5 * 60 * 1000
DEFAULT_RETRIES == 2

\* JavaScript null: sessionData.cookies (a string) and sessionData.timestamp.
\* A string is the sequence of its pieces, the empty string '' is <<>>; null
\* is a value of its own.
NullToken == <<"null">>
NullTime == -1
\* an axios error that carries no response (connection failure, timeout)
NoResponse == 0

----------------------------------------------------------------------------
\* Bounds of the model

\* the clock stops here
MaxTime == 660000
\* fetchOptionChain calls in one behaviour of Spec
MaxCalls == 2
\* fetchOptionChain calls in one behaviour of SpecConc
MaxConcCalls == 2
\* GET /api/pcr/:symbol requests in one behaviour of SpecHandlers
MaxHandlerCalls == 2
\* fetchPCRData calls in one behaviour of SpecServer
MaxServerCalls == 3
\* fetchOptionChain calls in one behaviour of SpecStreak
MaxStreakCalls == 4
\* attempt numbers for which SpecBackoff computes the backoff delay
MaxBackoffAttempts == 3
MaxTriggers == 2
MaxMarketJobs == 2
SlowLatency == 25000
\* time between issuing a request and its response (or error) arriving
NetLatency == 1000

\* the process starts on a cron tick
StartTime == CRON_PERIOD

Tasks == {"cron", "http"}
\* values of the retries argument (call sites use the default, 2)
RetryChoices == {-1, 0, 1, DEFAULT_RETRIES, 3}
\* Math.random() * 5000 is in [0, 5000); the draw only shifts the retry
JitterChoices == {0}

\* set-cookie response headers: a list of directives, each directive the list
\* of its ';'-separated segments
JarA == << <<"nsit=A", " Path=/">>, <<"nseappid=A", " HttpOnly", " Secure">> >>
JarB == << <<"nsit=B", " Path=/", " Expires=0">> >>

HomeResponses ==
  {[status |-> 200, hasSetCookie |-> TRUE, setCookie |-> JarA],
   [status |-> 200, hasSetCookie |-> TRUE, setCookie |-> JarB],
   [status |-> 200, hasSetCookie |-> TRUE, setCookie |-> <<>>],
   [status |-> 200, hasSetCookie |-> FALSE, setCookie |-> <<>>],
   [status |-> 403, hasSetCookie |-> TRUE, setCookie |-> JarA],
   [status |-> NoResponse, hasSetCookie |-> FALSE, setCookie |-> <<>>]}

PageStatuses == {200, 403, NoResponse}

\* response.data: an object with a truthy records field, an object without
\* one, or nothing
DataResponses ==
  {[status |-> 200, body |-> "records"],
   [status |-> 200, body |-> "norecords"],
   [status |-> 201, body |-> "records"],
   [status |-> 403, body |-> "norecords"],
   [status |-> 404, body |-> "records"],
   [status |-> 503, body |-> "records"],
   [status |-> NoResponse, body |-> "empty"]}

----------------------------------------------------------------------------
\* Values

NoError == [cause |-> "none", attempt |-> 0]
NoResult == [kind |-> "pending", data |-> "none"]
NoResp == [status |-> -1, body |-> "none"]
NoOld == [cookies |-> NullToken, timestamp |-> NullTime]

IdleTask ==
  [pc |-> "idle", retries |-> 0, attempt |-> 0,
   \* initializeNSESession frame
   force |-> FALSE, sNow |-> NullTime, setCookie |-> <<>>,
   cookieString |-> NullToken,
   \* fetchOptionChain frame
   cookies |-> NullToken, error |-> NoError, result |-> NoResult,
   \* waitForRateLimit frame, pending timer or response
   req |-> "none", seen |-> NullTime, wake |-> NullTime,
   \* observers of the current call
   old |-> NoOld, hs |-> <<>>, nData |-> 0, nSessFail |-> 0,
   only403 |-> TRUE, resp |-> NoResp, slept |-> FALSE,
   pageStatus |-> <<>>]

\* autoFetchJob: no job running
NoJob == [i |-> 0, lastTick |-> NullTime, outcomes |-> <<>>,
          settled |-> "none", open |-> FALSE]

\* GET /api/pcr/:symbol: nothing answered yet
NoReply == [status |-> NullTime, success |-> FALSE, error |-> "none",
            pcr |-> FALSE, fetchFailed |-> FALSE]

\* server.js:22-27  todayHistory, the lists by their lengths and the date by
\* its parity
NoHistory == [NIFTY |-> 0, BANKNIFTY |-> 0, date |-> 0, marketOpen |-> FALSE]

\* server.js:30-36  marketData, the lists by their lengths
NoMarketData == [indices |-> 0, gainers |-> 0, losers |-> 0, mostActive |-> 0,
                 updated |-> FALSE]

\* server.js:39-46  closingData, the lists by their lengths
NoClosingData == [indices |-> 0, gainers |-> 0, losers |-> 0,
                  mostActive |-> 0, sample |-> FALSE]

\* server.js:49-82  SAMPLE_CLOSING_DATA: every list is filled
SAMPLE_CLOSING_DATA == [indices |-> 1, gainers |-> 1, losers |-> 1,
                        mostActive |-> 1, sample |-> TRUE]

\* autoFetchPCRData: no tick served yet, no fetch running
NoPcrJob == [lastTick |-> NullTime, running |-> FALSE, open |-> FALSE,
             fetched |-> FALSE]

\* a leg of an option-chain row: item.CE or item.PE by its openInterest, or
\* absent
NoLeg == -1

\* a response body: null or an object, with or without records, records with
\* or without its data list; the rows by their CE and PE legs
NoPayload == [hasBody |-> FALSE, hasRecords |-> FALSE, hasData |-> FALSE,
              items |-> <<>>]

NoTotals == [totalCallOI |-> 0, totalPutOI |-> 0, pcr |-> 0]

\* a data response and what becomes of it: nothing yet
NoAggregate == [status |-> NoResponse, payload |-> NoPayload,
                out |-> "none", totals |-> NoTotals]

InitNet == [lastIssue |-> NullTime, tooClose |-> FALSE, calls |-> 0,
            streak |-> 0, job |-> NoJob, variant |-> "part_001",
            reply |-> NoReply, todayHistory |-> NoHistory,
            marketData |-> NoMarketData, pcrJob |-> NoPcrJob,
            jobs |-> [t \in {"cron", "http"} |-> NoJob],
            closingData |-> NoClosingData, started |-> FALSE,
            marketJobs |-> 0, aggregate |-> NoAggregate,
            symbol |-> <<>>]

RECURSIVE Join(_)
\* Array.prototype.join('; ')
Join(parts) ==
  IF Len(parts) = 0 THEN <<>>
  ELSE IF Len(parts) = 1 THEN <<parts[1]>>
  ELSE <<parts[1], "; ">> \o Join(Tail(parts))

\* cookies.map(c => c.split(';')[0]).join('; ')
CookieString(setCookie) ==
  Join([i \in 1..Len(setCookie) |-> setCookie[i][1]])

----------------------------------------------------------------------------
Init ==
  /\ now = StartTime
  /\ sessionData = [cookies |-> NullToken, timestamp |-> NullTime,
                    consecutiveFailures |-> 0]
  /\ lastRequestTime = 0
  /\ task = [t \in Tasks |-> IdleTask]
  /\ net = InitNet

----------------------------------------------------------------------------
\* Decisions of the code

\* faulty variant: the age test inverted
SessionValidInverted(n) ==
  /\ sessionData.cookies # NullToken
  /\ (n - sessionData.timestamp) > SESSION_TTL

\* faulty variant: a session aged exactly ttl still counts as valid
SessionValidInclusive(n) ==
  /\ sessionData.cookies # NullToken
  /\ (n - sessionData.timestamp) <= SESSION_TTL

\* part_001:42  sessionData.cookies && (now - sessionData.timestamp) < ttl
SessionValid(n) ==
  /\ sessionData.cookies # NullToken
  /\ (n - sessionData.timestamp) < SESSION_TTL

\* faulty variant: a retry reuses the stored session
NeedsRefreshNever(attempt) == FALSE

\* faulty variant: the refresh is forced from the third attempt on
NeedsRefreshLate(attempt) == attempt > 2

\* part_001:162  initializeNSESession(attempt > 1)
NeedsRefresh(attempt) == attempt > 1

\* faulty variant: the threshold itself does not trip the breaker
ShouldCooldownStrict(failures) == failures > FAILURE_THRESHOLD

\* part_001:153  sessionData.consecutiveFailures >= 3
ShouldCooldown(failures) == failures >= FAILURE_THRESHOLD

\* faulty variant: waits for the time already elapsed instead of the time remaining
RateWaitElapsed(n, last) ==
  IF n - last < MIN_REQUEST_GAP THEN n - last ELSE 0

\* part_001:27-34  waitTime of waitForRateLimit (0: no wait)
RateWait(n, last) ==
  IF n - last < MIN_REQUEST_GAP THEN MIN_REQUEST_GAP - (n - last) ELSE 0

\* faulty variant: gives up one attempt early
LastAttemptEarly(attempt, retries) == attempt + 1 >= retries

\* part_001:207  attempt === retries
LastAttempt(attempt, retries) == attempt = retries

\* faulty variant: the base delay given in seconds
BackoffDelaySeconds(jitter) == (BACKOFF_BASE \div 1000) + jitter

\* part_001:211  15000 + Math.random() * 5000
BackoffDelay(jitter) == BACKOFF_BASE + jitter

\* part_001:74-86  landing response: validateStatus 200..499, status check,
\* set-cookie check
HomeCause(r) ==
  IF r.status = NoResponse THEN "Network"
  ELSE IF ~(r.status >= 200 /\ r.status < 500) THEN "AxiosStatus"
  ELSE IF r.status # 200 THEN "HomeStatus"
  ELSE IF ~r.hasSetCookie \/ Len(r.setCookie) = 0 THEN "NoCookies"
  ELSE "none"

\* part_001:98-112  derivatives quote page: validateStatus: () => true
QuoteCause(status) ==
  IF status = NoResponse THEN "Network" ELSE "none"

\* part_001:119-132  option-chain page: axios' default validateStatus (2xx)
ChainCause(status) ==
  IF status = NoResponse THEN "Network"
  ELSE IF ~(status >= 200 /\ status < 300) THEN "AxiosStatus"
  ELSE "none"

\* faulty variant: any 200 response is taken as a payload
DataCauseNoRecordsCheck(r) ==
  IF r.status = NoResponse THEN "Network"
  ELSE IF ~(r.status >= 200 /\ r.status < 500) THEN "AxiosStatus"
  ELSE IF r.status = 403 THEN "Blocked"
  ELSE IF r.status # 200 THEN "BadStatus"
  ELSE "none"

\* part_001:183-201  data response: validateStatus 200..499, 403, non-200,
\* records check
DataCause(r) ==
  IF r.status = NoResponse THEN "Network"
  ELSE IF ~(r.status >= 200 /\ r.status < 500) THEN "AxiosStatus"
  ELSE IF r.status = 403 THEN "Blocked"
  ELSE IF r.status # 200 THEN "BadStatus"
  ELSE IF r.body = "records" THEN "none"
  ELSE "Malformed"

----------------------------------------------------------------------------
\* Synchronous pieces, composed into the actions below.  Each sets task' and
\* lastRequestTime'; the action states the other variables.

\* part_001:26-37  waitForRateLimit up to its timer (or, with nothing to wait
\* for, to its end)
waitForRateLimit(t, self, kind) ==
  LET waitTime == RateWait(now, lastRequestTime) IN
  IF waitTime > 0
  THEN /\ task' = [task EXCEPT ![t] =
                     [self EXCEPT !.pc = "gateWait", !.req = kind,
                                  !.seen = lastRequestTime,
                                  !.wake = now + waitTime, !.slept = TRUE]]
       /\ UNCHANGED lastRequestTime
  ELSE /\ task' = [task EXCEPT ![t] =
                     [self EXCEPT !.pc = "gateRet", !.req = kind,
                                  !.seen = lastRequestTime, !.slept = FALSE]]
       /\ lastRequestTime' = now

\* faulty variant: forceRefresh is ignored
initializeNSESessionNoForce(t, self, forceRefresh) ==
  LET s == [self EXCEPT !.force = forceRefresh, !.sNow = now, !.hs = <<>>,
                        !.pageStatus = <<>>,
                        !.old = [cookies |-> sessionData.cookies,
                                 timestamp |-> sessionData.timestamp]]
  IN IF SessionValid(now)
     THEN /\ task' = [task EXCEPT ![t] =
                        [s EXCEPT !.pc = "gotSession",
                                  !.cookies = sessionData.cookies]]
          /\ UNCHANGED lastRequestTime
     ELSE waitForRateLimit(t, s, "home")

\* part_001:39-50  initializeNSESession up to its first suspension
initializeNSESession(t, self, forceRefresh) ==
  LET s == [self EXCEPT !.force = forceRefresh, !.sNow = now, !.hs = <<>>,
                        !.pageStatus = <<>>,
                        !.old = [cookies |-> sessionData.cookies,
                                 timestamp |-> sessionData.timestamp]]
  IN IF ~forceRefresh /\ SessionValid(now)
     THEN /\ task' = [task EXCEPT ![t] =
                        [s EXCEPT !.pc = "gotSession",
                                  !.cookies = sessionData.cookies]]
          /\ UNCHANGED lastRequestTime
     ELSE waitForRateLimit(t, s, "home")

\* faulty variant: the loop body runs once whatever retries is
attemptLoopAtLeastOnce(t, self) ==
  IF self.attempt <= self.retries \/ self.attempt = 1
  THEN initializeNSESession(t, self, NeedsRefresh(self.attempt))
  ELSE /\ task' = [task EXCEPT ![t] =
                     [self EXCEPT !.pc = "done",
                                  !.result = [kind |-> "undefined",
                                              data |-> "none"]]]
       /\ UNCHANGED lastRequestTime

\* part_001:160-162  head of the attempt loop
attemptLoop(t, self) ==
  IF self.attempt <= self.retries
  THEN initializeNSESession(t, self, NeedsRefresh(self.attempt))
  ELSE /\ task' = [task EXCEPT ![t] =
                     [self EXCEPT !.pc = "done",
                                  !.result = [kind |-> "undefined",
                                              data |-> "none"]]]
       /\ UNCHANGED lastRequestTime

\* faulty variant: a failed handshake drops the stored session
sessionCatchClears(t, cause) ==
  /\ sessionData' = [cookies |-> NullToken, timestamp |-> NullTime,
                     consecutiveFailures |->
                       sessionData.consecutiveFailures + 1]
  /\ task' = [task EXCEPT ![t].pc = "sessThrown",
                          ![t].error = [cause |-> cause,
                                        attempt |-> task[t].attempt],
                          ![t].nSessFail = @ + 1]

\* faulty variant: a failed handshake is not counted
sessionCatchNoCount(t, cause) ==
  /\ UNCHANGED sessionData
  /\ task' = [task EXCEPT ![t].pc = "sessThrown",
                          ![t].error = [cause |-> cause,
                                        attempt |-> task[t].attempt],
                          ![t].nSessFail = @ + 1]

\* part_001:143-147  catch of initializeNSESession
sessionCatch(t, cause) ==
  /\ sessionData' = [sessionData EXCEPT !.consecutiveFailures = @ + 1]
  /\ task' = [task EXCEPT ![t].pc = "sessThrown",
                          ![t].error = [cause |-> cause,
                                        attempt |-> task[t].attempt],
                          ![t].nSessFail = @ + 1]

\* faulty variant: the catch of fetchOptionChain does not count the failure
fetchCatchNoCount(t, self, err) ==
  /\ UNCHANGED sessionData
  /\ IF LastAttempt(self.attempt, self.retries)
     THEN task' = [task EXCEPT ![t] =
                     [self EXCEPT !.pc = "done", !.error = err,
                                  !.result = [kind |-> "rejected",
                                              data |-> err.cause]]]
     ELSE \E jitter \in JitterChoices :
            task' = [task EXCEPT ![t] =
                       [self EXCEPT !.pc = "backoff", !.error = err,
                                    !.wake = now + BackoffDelay(jitter)]]

\* part_001:203-214  catch of fetchOptionChain
fetchCatch(t, self, err) ==
  /\ sessionData' = [sessionData EXCEPT !.consecutiveFailures = @ + 1]
  /\ IF LastAttempt(self.attempt, self.retries)
     THEN task' = [task EXCEPT ![t] =
                     [self EXCEPT !.pc = "done", !.error = err,
                                  !.result = [kind |-> "rejected",
                                              data |-> err.cause]]]
     ELSE \E jitter \in JitterChoices :
            task' = [task EXCEPT ![t] =
                       [self EXCEPT !.pc = "backoff", !.error = err,
                                    !.wake = now + BackoffDelay(jitter)]]

\* part_001:150-162  fetchOptionChain up to its first suspension
enterFetchOptionChain(t, retries) ==
  IF ShouldCooldown(sessionData.consecutiveFailures)
  THEN /\ task' = [task EXCEPT ![t] =
                     [IdleTask EXCEPT !.pc = "cooldown",
                                      !.retries = retries,
                                      !.wake = now + COOLDOWN_MS]]
       /\ UNCHANGED lastRequestTime
  ELSE attemptLoop(t, [IdleTask EXCEPT !.retries = retries, !.attempt = 1])

----------------------------------------------------------------------------
\* Actions

\* part_001:150-162  a caller (autoFetchJob part_001:275, the HTTP handler
\* part_001:321) calls fetchOptionChain(symbol, retries)
fetchOptionChain(t, retries) ==
  /\ task[t].pc = "idle"
  /\ net' = [net EXCEPT !.calls = @ + 1]
  /\ enterFetchOptionChain(t, retries)
  /\ UNCHANGED <<now, sessionData>>

\* faulty variant: the counter is not reset after the cooldown
CooldownEndNoReset(t) ==
  /\ task[t].pc = "cooldown"
  /\ now >= task[t].wake
  /\ attemptLoop(t, [task[t] EXCEPT !.attempt = 1])
  /\ UNCHANGED <<now, sessionData, net>>

\* part_001:156-162  the cooldown timer fires
CooldownEnd(t) ==
  /\ task[t].pc = "cooldown"
  /\ now >= task[t].wake
  /\ sessionData' = [sessionData EXCEPT !.consecutiveFailures = 0]
  /\ attemptLoop(t, [task[t] EXCEPT !.attempt = 1])
  /\ UNCHANGED <<now, net>>

\* part_001:162-164  initializeNSESession has resolved; fetchOptionChain calls
\* waitForRateLimit
AfterSession(t) ==
  /\ task[t].pc = "gotSession"
  /\ waitForRateLimit(t, task[t], "data")
  /\ UNCHANGED <<now, sessionData, net>>

\* part_001:33-36  the timer of waitForRateLimit fires
GateTimer(t) ==
  /\ task[t].pc = "gateWait"
  /\ now >= task[t].wake
  /\ lastRequestTime' = now
  /\ task' = [task EXCEPT ![t].pc = "gateRet"]
  /\ UNCHANGED <<now, sessionData, net>>

\* part_001:53, 98, 119, 170  waitForRateLimit has resolved; the caller issues
\* its request
IssueRequest(t) ==
  /\ task[t].pc = "gateRet"
  /\ task' = [task EXCEPT
       ![t].pc = "await",
       ![t].wake = now + NetLatency,
       ![t].hs = IF task[t].req = "data" THEN @ ELSE Append(@, task[t].req),
       ![t].nData = IF task[t].req = "data" THEN @ + 1 ELSE @]
  /\ net' = [net EXCEPT !.lastIssue = now,
              !.tooClose = \/ net.tooClose
                          \/ /\ net.lastIssue # NullTime
                             /\ now - net.lastIssue < MIN_REQUEST_GAP]
  /\ UNCHANGED <<now, sessionData, lastRequestTime>>

\* part_001:53-77, 98-112, 119-132, 170-185  a request that the upstream
\* answers late, within the client's timeout of 30000 ms
IssueRequestSlow(t) ==
  /\ task[t].pc = "gateRet"
  /\ task' = [task EXCEPT
       ![t].pc = "await",
       ![t].wake = now + SlowLatency,
       ![t].hs = IF task[t].req = "data" THEN @ ELSE Append(@, task[t].req),
       ![t].nData = IF task[t].req = "data" THEN @ + 1 ELSE @]
  /\ net' = [net EXCEPT !.lastIssue = now,
              !.tooClose = \/ net.tooClose
                          \/ /\ net.lastIssue # NullTime
                             /\ now - net.lastIssue < MIN_REQUEST_GAP]
  /\ UNCHANGED <<now, sessionData, lastRequestTime>>

\* part_001:53-91  the landing request settles
HomeResponse(t, r) ==
  /\ task[t].pc = "await" /\ task[t].req = "home"
  /\ now >= task[t].wake
  /\ IF HomeCause(r) = "none"
     THEN /\ task' = [task EXCEPT ![t].pc = "delay1",
                                  ![t].pageStatus = Append(@, r.status),
                                  ![t].setCookie = r.setCookie,
                                  ![t].wake = now + HOME_DELAY]
          /\ UNCHANGED sessionData
     ELSE sessionCatch(t, HomeCause(r))
  /\ UNCHANGED <<now, lastRequestTime, net>>

\* part_001:91-95  the human-like delay ends: derive the token, gate
Delay1End(t) ==
  /\ task[t].pc = "delay1"
  /\ now >= task[t].wake
  /\ waitForRateLimit(t, [task[t] EXCEPT
                            !.cookieString = CookieString(task[t].setCookie)],
                      "quote")
  /\ UNCHANGED <<now, sessionData, net>>

\* part_001:98-114  the derivatives quote page request settles
QuoteResponse(t, status) ==
  /\ task[t].pc = "await" /\ task[t].req = "quote"
  /\ now >= task[t].wake
  /\ IF QuoteCause(status) = "none"
     THEN /\ task' = [task EXCEPT ![t].pc = "delay2",
                                  ![t].pageStatus = Append(@, status),
                                  ![t].wake = now + QUOTE_DELAY]
          /\ UNCHANGED sessionData
     ELSE sessionCatch(t, QuoteCause(status))
  /\ UNCHANGED <<now, lastRequestTime, net>>

\* faulty variant: the option-chain page is requested without its own
\* waitForRateLimit
Delay2EndNoGate(t) ==
  /\ task[t].pc = "delay2"
  /\ now >= task[t].wake
  /\ task' = [task EXCEPT ![t].pc = "gateRet", ![t].req = "chain"]
  /\ UNCHANGED <<now, sessionData, lastRequestTime, net>>

\* part_001:114-116
Delay2End(t) ==
  /\ task[t].pc = "delay2"
  /\ now >= task[t].wake
  /\ waitForRateLimit(t, task[t], "chain")
  /\ UNCHANGED <<now, sessionData, net>>

\* part_001:119-134  the option-chain page request settles
ChainResponse(t, status) ==
  /\ task[t].pc = "await" /\ task[t].req = "chain"
  /\ now >= task[t].wake
  /\ IF ChainCause(status) = "none"
     THEN /\ task' = [task EXCEPT ![t].pc = "delay3",
                                  ![t].pageStatus = Append(@, status),
                                  ![t].wake = now + CHAIN_DELAY]
          /\ UNCHANGED sessionData
     ELSE sessionCatch(t, ChainCause(status))
  /\ UNCHANGED <<now, lastRequestTime, net>>

\* faulty variant: the token is stored and the timestamp is left as it is
Delay3EndTokenOnly(t) ==
  /\ task[t].pc = "delay3"
  /\ now >= task[t].wake
  /\ sessionData' = [sessionData EXCEPT !.cookies = task[t].cookieString,
                                        !.consecutiveFailures = 0]
  /\ task' = [task EXCEPT ![t].pc = "gotSession",
                          ![t].cookies = task[t].cookieString]
  /\ UNCHANGED <<now, lastRequestTime, net>>

\* faulty variant: the session is stamped with the time of the store
Delay3EndStoresNow(t) ==
  /\ task[t].pc = "delay3"
  /\ now >= task[t].wake
  /\ sessionData' = [cookies |-> task[t].cookieString,
                     timestamp |-> now,
                     consecutiveFailures |-> 0]
  /\ task' = [task EXCEPT ![t].pc = "gotSession",
                          ![t].cookies = task[t].cookieString]
  /\ UNCHANGED <<now, lastRequestTime, net>>

\* faulty variant: the failure counter is left as it is
Delay3EndKeepsStreak(t) ==
  /\ task[t].pc = "delay3"
  /\ now >= task[t].wake
  /\ sessionData' = [sessionData EXCEPT !.cookies = task[t].cookieString,
                                        !.timestamp = task[t].sNow]
  /\ task' = [task EXCEPT ![t].pc = "gotSession",
                          ![t].cookies = task[t].cookieString]
  /\ UNCHANGED <<now, lastRequestTime, net>>

\* part_001:134-141  the last delay ends: the session is stored and returned
Delay3End(t) ==
  /\ task[t].pc = "delay3"
  /\ now >= task[t].wake
  /\ sessionData' = [cookies |-> task[t].cookieString,
                     timestamp |-> task[t].sNow,
                     consecutiveFailures |-> 0]
  /\ task' = [task EXCEPT ![t].pc = "gotSession",
                          ![t].cookies = task[t].cookieString]
  /\ UNCHANGED <<now, lastRequestTime, net>>

\* part_001:162, 203-214  initializeNSESession has rejected; the catch of
\* fetchOptionChain runs
SessionRejected(t) ==
  /\ task[t].pc = "sessThrown"
  /\ fetchCatch(t, task[t], task[t].error)
  /\ UNCHANGED <<now, lastRequestTime, net>>

\* faulty variant: a success leaves the failure counter as it is
DataResponseNoReset(t, r) ==
  /\ task[t].pc = "await" /\ task[t].req = "data"
  /\ now >= task[t].wake
  /\ LET self == [task[t] EXCEPT !.resp = r,
                                 !.only403 = @ /\ r.status = 403]
     IN IF DataCause(r) = "none"
        THEN /\ UNCHANGED sessionData
             /\ task' = [task EXCEPT ![t] =
                           [self EXCEPT !.pc = "done",
                                        !.result = [kind |-> "resolved",
                                                    data |-> r.body]]]
        ELSE fetchCatch(t, self, [cause |-> DataCause(r),
                                  attempt |-> self.attempt])
  /\ UNCHANGED <<now, lastRequestTime, net>>

\* faulty variant: a success returns response.data.records, not response.data
DataResponseUnwrapped(t, r) ==
  /\ task[t].pc = "await" /\ task[t].req = "data"
  /\ now >= task[t].wake
  /\ LET self == [task[t] EXCEPT !.resp = r,
                                 !.only403 = @ /\ r.status = 403]
     IN IF DataCause(r) = "none"
        THEN /\ sessionData' = [sessionData EXCEPT !.consecutiveFailures = 0]
             /\ task' = [task EXCEPT ![t] =
                           [self EXCEPT !.pc = "done",
                                        !.result = [kind |-> "resolved",
                                                    data |-> "recordsOnly"]]]
        ELSE fetchCatch(t, self, [cause |-> DataCause(r),
                                  attempt |-> self.attempt])
  /\ UNCHANGED <<now, lastRequestTime, net>>

\* part_001:170-214  the data request settles
DataResponse(t, r) ==
  /\ task[t].pc = "await" /\ task[t].req = "data"
  /\ now >= task[t].wake
  /\ LET self == [task[t] EXCEPT !.resp = r,
                                 !.only403 = @ /\ r.status = 403]
     IN IF DataCause(r) = "none"
        THEN /\ sessionData' = [sessionData EXCEPT !.consecutiveFailures = 0]
             /\ task' = [task EXCEPT ![t] =
                           [self EXCEPT !.pc = "done",
                                        !.result = [kind |-> "resolved",
                                                    data |-> r.body]]]
        ELSE fetchCatch(t, self, [cause |-> DataCause(r),
                                  attempt |-> self.attempt])
  /\ UNCHANGED <<now, lastRequestTime, net>>

\* faulty variant: the next attempt does not wait for the backoff timer
BackoffEndEarly(t) ==
  /\ task[t].pc = "backoff"
  /\ attemptLoop(t, [task[t] EXCEPT !.attempt = @ + 1, !.error = NoError,
                                    !.resp = NoResp])
  /\ UNCHANGED <<now, sessionData, net>>

\* part_001:213, 160-162  the backoff timer fires: next attempt
BackoffEnd(t) ==
  /\ task[t].pc = "backoff"
  /\ now >= task[t].wake
  /\ attemptLoop(t, [task[t] EXCEPT !.attempt = @ + 1, !.error = NoError,
                                    !.resp = NoResp])
  /\ UNCHANGED <<now, sessionData, net>>

\* part_001:275-285, 321-326  the caller takes the result or the error
Return(t) ==
  /\ task[t].pc = "done"
  /\ task' = [task EXCEPT ![t] = IdleTask]
  /\ net' = [net EXCEPT !.streak =
                IF task[t].result.kind = "rejected" THEN @ + 1
                ELSE IF task[t].result.kind = "resolved" THEN 0
                ELSE @]
  /\ UNCHANGED <<now, sessionData, lastRequestTime>>

----------------------------------------------------------------------------
\* Time

Waiting(t) ==
  task[t].pc \in {"cooldown", "gateWait", "await", "delay1", "delay2",
                  "delay3", "backoff", "srvHome", "srvData", "jobFetch",
                  "jobPause"}

\* a promise continuation is queued: it runs before any timer or I/O event
Ready(t) ==
  task[t].pc \in {"gotSession", "gateRet", "sessThrown", "done", "srvSession"}

\* part_001:291  '*/5 * * * *'
NextTick(n) == ((n \div CRON_PERIOD) + 1) * CRON_PERIOD

Deadlines ==
  {task[t].wake : t \in {u \in Tasks : Waiting(u)}}
    \cup (IF \A t \in Tasks : task[t].pc = "idle" THEN {NextTick(now)} ELSE {})

AdvanceTime ==
  /\ \A t \in Tasks : ~Ready(t)
  /\ \A d \in Deadlines : d > now
  /\ \E d \in Deadlines :
       /\ \A e \in Deadlines : d <= e
       /\ d <= MaxTime
       /\ now' = d
  /\ UNCHANGED <<sessionData, lastRequestTime, task, net>>

----------------------------------------------------------------------------
\* What a fetchOptionChain call does once started
Fetch(t) ==
  \/ CooldownEnd(t)
  \/ AfterSession(t)
  \/ GateTimer(t)
  \/ IssueRequest(t)
  \/ \E r \in HomeResponses : HomeResponse(t, r)
  \/ Delay1End(t)
  \/ \E status \in PageStatuses : QuoteResponse(t, status)
  \/ Delay2End(t)
  \/ \E status \in PageStatuses : ChainResponse(t, status)
  \/ Delay3End(t)
  \/ SessionRejected(t)
  \/ \E r \in DataResponses : DataResponse(t, r)
  \/ BackoffEnd(t)

\* A caller's fetchOptionChain call once started, and its return to the caller
Step(t) ==
  \/ Fetch(t)
  \/ Return(t)

\* One caller at a time (the sequential loop of autoFetchJob, part_001:273-286),
\* any retries argument
Next ==
  \/ /\ net.calls < MaxCalls
     /\ \E retries \in RetryChoices : fetchOptionChain("cron", retries)
  \/ Step("cron")
  \/ AdvanceTime

Spec == Init /\ [][Next]_vars

\* The program as wired: the cron job and an HTTP handler call fetchOptionChain
\* concurrently, with the default retries (part_001:275, 321)
NextConc ==
  \/ /\ net.calls < MaxConcCalls
     /\ \E t \in Tasks : fetchOptionChain(t, DEFAULT_RETRIES)
  \/ \E t \in Tasks : Step(t)
  \/ AdvanceTime

SpecConc == Init /\ [][NextConc]_vars

\* One caller at a time, default retries, enough calls in a row for the
\* failure counter to build up over several of them (part_001:273-286)
NextStreak ==
  \/ /\ net.calls < MaxStreakCalls
     /\ fetchOptionChain("cron", DEFAULT_RETRIES)
  \/ Step("cron")
  \/ AdvanceTime

SpecStreak == Init /\ [][NextStreak]_vars

\* The upstream serves the three pages of every handshake and refuses every
\* data request; one caller at a time, two attempts or more per call
GoodHomeResponses == {r \in HomeResponses : HomeCause(r) = "none"}
GoodQuoteStatuses == {s \in PageStatuses : QuoteCause(s) = "none"}
GoodChainStatuses == {s \in PageStatuses : ChainCause(s) = "none"}
FailedDataResponses == {r \in DataResponses : DataCause(r) # "none"}

NextDataFails ==
  \/ /\ net.calls < MaxStreakCalls
     /\ \E retries \in {k \in RetryChoices : k >= 2} :
          fetchOptionChain("cron", retries)
  \/ AfterSession("cron")
  \/ GateTimer("cron")
  \/ IssueRequest("cron")
  \/ \E r \in GoodHomeResponses : HomeResponse("cron", r)
  \/ Delay1End("cron")
  \/ \E status \in GoodQuoteStatuses : QuoteResponse("cron", status)
  \/ Delay2End("cron")
  \/ \E status \in GoodChainStatuses : ChainResponse("cron", status)
  \/ Delay3End("cron")
  \/ \E r \in FailedDataResponses : DataResponse("cron", r)
  \/ BackoffEnd("cron")
  \/ Return("cron")
  \/ AdvanceTime

SpecDataFails == Init /\ [][NextDataFails]_vars

\* The cron job and an HTTP handler call fetchOptionChain concurrently against
\* an upstream that serves every request, some of them late
GoodDataResponses == {r \in DataResponses : DataCause(r) = "none"}

NextLatency ==
  \/ /\ net.calls < MaxConcCalls
     /\ \E t \in Tasks : fetchOptionChain(t, DEFAULT_RETRIES)
  \/ \E t \in Tasks : AfterSession(t)
  \/ \E t \in Tasks : GateTimer(t)
  \/ \E t \in Tasks : IssueRequest(t)
  \/ \E t \in Tasks : IssueRequestSlow(t)
  \/ \E t \in Tasks : \E r \in GoodHomeResponses : HomeResponse(t, r)
  \/ \E t \in Tasks : Delay1End(t)
  \/ \E t \in Tasks : \E status \in GoodQuoteStatuses : QuoteResponse(t, status)
  \/ \E t \in Tasks : Delay2End(t)
  \/ \E t \in Tasks : \E status \in GoodChainStatuses : ChainResponse(t, status)
  \/ \E t \in Tasks : Delay3End(t)
  \/ \E t \in Tasks : \E r \in GoodDataResponses : DataResponse(t, r)
  \/ \E t \in Tasks : Return(t)
  \/ AdvanceTime

SpecLatency == Init /\ [][NextLatency]_vars

----------------------------------------------------------------------------
\* The scheduled job (part_001:263-293)

\* part_001:273  for (const symbol of ['NIFTY', 'BANKNIFTY'])
Symbols == <<"NIFTY", "BANKNIFTY">>

\* faulty variant: the job is started whatever the clock says
TickStartsAlways(isMarketOpen) == TRUE

\* part_001:292, 264-267  if (isMarketOpen()) autoFetchJob(), and autoFetchJob
\* itself returns at once when the market is closed
TickStarts(isMarketOpen) == isMarketOpen

\* part_001:291-293, 263-275  a cron tick: with the market open, autoFetchJob
\* starts and calls fetchOptionChain for the first symbol.  job.open keeps
\* what isMarketOpen() returned at the tick.
CronTick ==
  /\ now % CRON_PERIOD = 0
  /\ net.job.lastTick # now
  /\ net.job.i = 0
  /\ task["cron"].pc = "idle"
  /\ \E isMarketOpen \in BOOLEAN :
       IF TickStarts(isMarketOpen)
       THEN /\ net' = [net EXCEPT !.calls = @ + 1,
                                  !.job = [i |-> 1, lastTick |-> now,
                                           outcomes |-> <<>>,
                                           settled |-> "pending",
                                           open |-> isMarketOpen]]
            /\ enterFetchOptionChain("cron", DEFAULT_RETRIES)
       ELSE /\ net' = [net EXCEPT !.job.lastTick = now,
                                  !.job.open = isMarketOpen]
            /\ UNCHANGED <<task, lastRequestTime>>
  /\ UNCHANGED <<now, sessionData>>

\* what the loop body makes of a settled fetch: calculatePCR (part_001:276)
\* throws on a payload whose records hold no data list
Outcome(kind, pcrThrows) ==
  IF kind = "resolved" /\ ~pcrThrows THEN "ok" ELSE "failed"

\* faulty variant: the loop body has no try/catch, a failure ends the job
JobStepUncaught ==
  /\ task["cron"].pc = "done"
  /\ net.job.i \in 1..Len(Symbols)
  /\ \E pcrThrows \in BOOLEAN :
       LET outcome == Outcome(task["cron"].result.kind, pcrThrows)
           streak == IF task["cron"].result.kind = "rejected"
                     THEN net.streak + 1 ELSE 0
       IN IF outcome = "ok" /\ net.job.i < Len(Symbols)
          THEN /\ net' = [net EXCEPT !.calls = @ + 1, !.streak = streak,
                                     !.job.i = @ + 1,
                                     !.job.outcomes = Append(@, outcome)]
               /\ enterFetchOptionChain("cron", DEFAULT_RETRIES)
          ELSE /\ net' = [net EXCEPT !.streak = streak,
                                     !.job.i = 0,
                                     !.job.outcomes = Append(@, outcome),
                                     !.job.settled =
                                        IF outcome = "ok" THEN "resolved"
                                        ELSE "rejected"]
               /\ task' = [task EXCEPT !["cron"] = IdleTask]
               /\ UNCHANGED lastRequestTime
  /\ UNCHANGED <<now, sessionData>>

\* part_001:273-288  the awaited fetchOptionChain has settled: the loop body
\* ends (in its try or in its catch) and the loop goes on to the next symbol,
\* or the job ends
JobStep ==
  /\ task["cron"].pc = "done"
  /\ net.job.i \in 1..Len(Symbols)
  /\ \E pcrThrows \in BOOLEAN :
       LET outcome == Outcome(task["cron"].result.kind, pcrThrows)
           streak == IF task["cron"].result.kind = "rejected"
                     THEN net.streak + 1 ELSE 0
       IN IF net.job.i < Len(Symbols)
          THEN /\ net' = [net EXCEPT !.calls = @ + 1, !.streak = streak,
                                     !.job.i = @ + 1,
                                     !.job.outcomes = Append(@, outcome)]
               /\ enterFetchOptionChain("cron", DEFAULT_RETRIES)
          ELSE /\ net' = [net EXCEPT !.streak = streak,
                                     !.job.i = 0,
                                     !.job.outcomes = Append(@, outcome),
                                     !.job.settled = "resolved"]
               /\ task' = [task EXCEPT !["cron"] = IdleTask]
               /\ UNCHANGED lastRequestTime
  /\ UNCHANGED <<now, sessionData>>

NextJob ==
  \/ CronTick
  \/ Fetch("cron")
  \/ JobStep
  \/ AdvanceTime

SpecJob == Init /\ [][NextJob]_vars

----------------------------------------------------------------------------
\* The variant without retries (src/server.js): ensureSession and fetchPCRData,
\* called for both symbols at once by autoFetchPCRData (server.js:407-411) and
\* by the GET /api/pcr/:symbol handler (server.js:478-491).  The frames use
\* the fields of task; sessionData has the cookies and the timestamp.

\* server.js:19  ttl
SERVER_TTL == 3 * 60 * 1000

\* server.js:104, 139  a cookie string used as a condition: null and the
\* empty string are falsy
Truthy(c) == c # NullToken /\ c # <<>>

\* server.js:104-106
ServerSessionValid(n) ==
  /\ Truthy(sessionData.cookies)
  /\ sessionData.timestamp # NullTime
  /\ n - sessionData.timestamp < SERVER_TTL

RECURSIVE Directive(_)
\* a set-cookie header value as received: its segments with the ';' between
\* them
Directive(segments) ==
  IF Len(segments) = 0 THEN <<>>
  ELSE IF Len(segments) = 1 THEN <<segments[1]>>
  ELSE <<segments[1], ";">> \o Directive(Tail(segments))

RECURSIVE ServerCookieString(_)
\* server.js:123  cookies.join('; '): whole header values, attributes included
ServerCookieString(setCookie) ==
  IF Len(setCookie) = 0 THEN <<>>
  ELSE IF Len(setCookie) = 1 THEN Directive(setCookie[1])
  ELSE Directive(setCookie[1]) \o <<"; ">>
         \o ServerCookieString(Tail(setCookie))

\* server.js:110-130  the landing request: the client's default validateStatus
\* (2xx), then if (cookies)
ServerHomeCause(r) ==
  IF r.status = NoResponse THEN "Network"
  ELSE IF ~(r.status >= 200 /\ r.status < 300) THEN "AxiosStatus"
  ELSE IF ~r.hasSetCookie THEN "NoCookies"
  ELSE "none"

\* server.js:141-152  the data request: the client's default validateStatus
ServerDataCause(r) ==
  IF r.status = NoResponse THEN "Network"
  ELSE IF ~(r.status >= 200 /\ r.status < 300) THEN "AxiosStatus"
  ELSE "none"

\* server.js:136-138, 103-119  fetchPCRData is called: ensureSession returns
\* the stored cookies or sends the landing request
ServerCallFrame ==
  LET self == [IdleTask EXCEPT
                 !.old = [cookies |-> sessionData.cookies,
                          timestamp |-> sessionData.timestamp]]
  IN IF ServerSessionValid(now)
     THEN [self EXCEPT !.pc = "srvSession",
                       !.cookies = sessionData.cookies]
     ELSE [self EXCEPT !.pc = "srvHome", !.req = "home",
                       !.hs = <<"home">>,
                       !.wake = now + NetLatency]

fetchPCRData(t) ==
  /\ task[t].pc = "idle"
  /\ net' = [net EXCEPT !.calls = @ + 1]
  /\ task' = [task EXCEPT ![t] = ServerCallFrame]
  /\ UNCHANGED <<now, sessionData, lastRequestTime>>

\* server.js:110-132  the landing request settles: a session is stored, or
\* the failure is logged and whatever is stored is returned
SrvHomeResponse(t, r) ==
  /\ task[t].pc = "srvHome"
  /\ now >= task[t].wake
  /\ IF ServerHomeCause(r) = "none"
     THEN /\ sessionData' =
               [sessionData EXCEPT !.cookies = ServerCookieString(r.setCookie),
                                   !.timestamp = now]
          /\ task' = [task EXCEPT
               ![t].pc = "srvSession",
               ![t].cookies = ServerCookieString(r.setCookie)]
     ELSE /\ UNCHANGED sessionData
          /\ task' = [task EXCEPT ![t].pc = "srvSession",
                                  ![t].cookies = sessionData.cookies,
                                  ![t].nSessFail = @ + 1]
  /\ UNCHANGED <<now, lastRequestTime, net>>

\* server.js:110-118  the landing request carries no timeout: the upstream
\* never answers and the request never settles
SrvHomeNever(t) ==
  /\ task[t].pc = "srvHome"
  /\ task' = [task EXCEPT ![t].pc = "hung"]
  /\ UNCHANGED <<now, sessionData, lastRequestTime, net>>

\* server.js:138-152, 193-196  ensureSession has resolved: without cookies
\* fetchPCRData throws and catches, otherwise it sends the data request
SrvAfterSession(t) ==
  /\ task[t].pc = "srvSession"
  /\ IF ~Truthy(task[t].cookies)
     THEN task' = [task EXCEPT
            ![t].pc = "done",
            ![t].error = [cause |-> "NoSession", attempt |-> 0],
            ![t].result = [kind |-> "resolved", data |-> "failure"]]
     ELSE task' = [task EXCEPT ![t].pc = "srvData", ![t].req = "data",
                               ![t].nData = @ + 1,
                               ![t].wake = now + NetLatency]
  /\ UNCHANGED <<now, sessionData, lastRequestTime, net>>

\* server.js:141-196  the data request settles (timeout: 10000): the totals
\* are computed, from nothing when the body has no records
SrvDataResponse(t, r) ==
  /\ task[t].pc = "srvData"
  /\ now >= task[t].wake
  /\ IF ServerDataCause(r) = "none"
     THEN task' = [task EXCEPT
            ![t].pc = "done", ![t].resp = r,
            ![t].result = [kind |-> "resolved",
                           data |-> IF r.body = "records" THEN "pcr"
                                    ELSE "zeros"]]
     ELSE task' = [task EXCEPT
            ![t].pc = "done", ![t].resp = r,
            ![t].error = [cause |-> ServerDataCause(r), attempt |-> 0],
            ![t].result = [kind |-> "resolved", data |-> "failure"]]
  /\ UNCHANGED <<now, sessionData, lastRequestTime, net>>

ServerFetch(t) ==
  \/ \E r \in HomeResponses : SrvHomeResponse(t, r)
  \/ SrvHomeNever(t)
  \/ SrvAfterSession(t)
  \/ \E r \in DataResponses : SrvDataResponse(t, r)

NextServer ==
  \/ /\ net.calls < MaxServerCalls
     /\ \E t \in Tasks : fetchPCRData(t)
  \/ \E t \in Tasks : ServerFetch(t)
  \/ \E t \in Tasks : Return(t)
  \/ AdvanceTime

SpecServer == Init /\ [][NextServer]_vars

\* every event that is due is eventually served
FairSpecServer == SpecServer /\ WF_vars(NextServer)

-----------------------------------------------------------------------------
\* The every-minute schedule of server.js (lines 571-574): resetDailyData,
\* then autoFetchPCRData.  The two fetchPCRData calls of Promise.all run in
\* the two frames, NIFTY in "cron" and BANKNIFTY in "http".

MINUTE == 60 * 1000

\* server.js:401-402  new Date().getMinutes()
getMinutes(n) == (n \div MINUTE) % 60

\* server.js:436-456  resetDailyData: on a new date the day's history and the
\* live market data are emptied
ResetHistory(newDay) ==
  IF newDay
  THEN [NoHistory EXCEPT !.date = 1 - net.todayHistory.date]
  ELSE net.todayHistory

ResetMarketData(newDay) == IF newDay THEN NoMarketData ELSE net.marketData

\* server.js:394-403  the two early returns of autoFetchPCRData
PcrFetches(isOpen, minutes) == isOpen /\ minutes % 5 = 0

\* server.js:571-574, 393-411  a tick of the every-minute schedule, served
\* while no autoFetchPCRData of an earlier tick is still fetching
PcrTick ==
  /\ now % MINUTE = 0
  /\ net.pcrJob.lastTick # now
  /\ \A t \in Tasks : task[t].pc = "idle"
  /\ \E newDay \in BOOLEAN, isMarketHours \in BOOLEAN :
       LET fetches == PcrFetches(isMarketHours, getMinutes(now))
       IN /\ net' = [net EXCEPT
                 !.todayHistory = [ResetHistory(newDay) EXCEPT
                                     !.marketOpen = isMarketHours],
                 !.marketData = ResetMarketData(newDay),
                 !.calls = IF fetches THEN @ + Cardinality(Tasks) ELSE @,
                 !.pcrJob = [lastTick |-> now, running |-> fetches,
                             open |-> isMarketHours, fetched |-> fetches]]
          /\ task' = IF fetches THEN [t \in Tasks |-> ServerCallFrame]
                     ELSE task
  /\ UNCHANGED <<now, sessionData, lastRequestTime>>

\* server.js:413-429  both calls have resolved: each successful result is
\* appended to the history of its symbol
PcrJobEnd ==
  /\ net.pcrJob.running
  /\ \A t \in Tasks : task[t].pc = "done"
  /\ net' = [net EXCEPT
       !.pcrJob.running = FALSE,
       !.todayHistory.NIFTY =
          IF task["cron"].result.data # "failure" THEN @ + 1 ELSE @,
       !.todayHistory.BANKNIFTY =
          IF task["http"].result.data # "failure" THEN @ + 1 ELSE @]
  /\ task' = [t \in Tasks |-> IdleTask]
  /\ UNCHANGED <<now, sessionData, lastRequestTime>>

\* the next timer or I/O event, or the next minute when nothing is running
PcrDeadlines ==
  {task[t].wake : t \in {u \in Tasks : task[u].pc \in {"srvHome", "srvData"}}}
    \cup (IF \A t \in Tasks : task[t].pc = "idle"
          THEN {((now \div MINUTE) + 1) * MINUTE} ELSE {})

PcrAdvanceTime ==
  /\ \A t \in Tasks : task[t].pc # "srvSession"
  /\ ~(\A t \in Tasks : task[t].pc = "done")
  /\ ~ENABLED PcrTick
  /\ \A d \in PcrDeadlines : d > now
  /\ \E d \in PcrDeadlines :
       /\ \A e \in PcrDeadlines : d <= e
       /\ d <= MaxTime
       /\ now' = d
  /\ UNCHANGED <<sessionData, lastRequestTime, task, net>>

NextServerPcr ==
  \/ PcrTick
  \/ \E t \in Tasks : \E r \in HomeResponses : SrvHomeResponse(t, r)
  \/ \E t \in Tasks : SrvAfterSession(t)
  \/ \E t \in Tasks : \E r \in DataResponses : SrvDataResponse(t, r)
  \/ PcrJobEnd
  \/ PcrAdvanceTime

SpecServerPcr == Init /\ [][NextServerPcr]_vars

----------------------------------------------------------------------------
\* GET /api/pcr/:symbol with a valid symbol, in the variant with retries
\* (part_001:313-327) and in the variant without (server.js:478-491)

\* faulty variant: a failure is answered with fallback figures
HttpReplyFallback(t) ==
  /\ task[t].pc = "done"
  /\ \E pcrThrows \in BOOLEAN :
       net' = [net EXCEPT !.reply =
                 [status |-> 200, success |-> TRUE, error |-> "none",
                  pcr |-> TRUE,
                  fetchFailed |-> task[t].result.kind = "rejected"]]
  /\ task' = [task EXCEPT ![t] = IdleTask]
  /\ UNCHANGED <<now, sessionData, lastRequestTime>>

\* part_001:319-326  the awaited fetchOptionChain has settled: the figures
\* are computed and sent, or the catch answers 500
HttpReply(t) ==
  /\ task[t].pc = "done"
  /\ \E pcrThrows \in BOOLEAN :
       net' = [net EXCEPT !.reply =
                 IF Outcome(task[t].result.kind, pcrThrows) = "ok"
                 THEN [status |-> 200, success |-> TRUE, error |-> "none",
                       pcr |-> TRUE, fetchFailed |-> FALSE]
                 ELSE [status |-> 500, success |-> FALSE,
                       error |-> IF task[t].result.kind = "rejected"
                                 THEN task[t].error.cause ELSE "TypeError",
                       pcr |-> FALSE,
                       fetchFailed |-> task[t].result.kind = "rejected"]]
  /\ task' = [task EXCEPT ![t] = IdleTask]
  /\ UNCHANGED <<now, sessionData, lastRequestTime>>

\* server.js:484-487  the awaited fetchPCRData has resolved: res.json(data)
ServerHttpReply(t) ==
  /\ task[t].pc = "done"
  /\ net' = [net EXCEPT !.reply =
               [status |-> 200,
                success |-> task[t].result.data # "failure",
                error |-> task[t].error.cause,
                pcr |-> task[t].result.data # "failure",
                fetchFailed |-> task[t].error.cause # "none"]]
  /\ task' = [task EXCEPT ![t] = IdleTask]
  /\ UNCHANGED <<now, sessionData, lastRequestTime>>

\* either variant of the program
InitHandlers ==
  /\ now = StartTime
  /\ sessionData = [cookies |-> NullToken, timestamp |-> NullTime,
                    consecutiveFailures |-> 0]
  /\ lastRequestTime = 0
  /\ task = [t \in Tasks |-> IdleTask]
  /\ \E variant \in {"part_001", "server"} :
       net = [InitNet EXCEPT !.variant = variant]

NextHandlers ==
  \/ /\ net.variant = "part_001"
     /\ net.calls < MaxHandlerCalls
     /\ fetchOptionChain("http", DEFAULT_RETRIES)
  \/ Fetch("http")
  \/ /\ net.variant = "part_001"
     /\ HttpReply("http")
  \/ /\ net.variant = "server"
     /\ net.calls < MaxHandlerCalls
     /\ fetchPCRData("http")
  \/ ServerFetch("http")
  \/ /\ net.variant = "server"
     /\ ServerHttpReply("http")
  \/ AdvanceTime

SpecHandlers == InitHandlers /\ [][NextHandlers]_vars

-----------------------------------------------------------------------------
\* GET /api/pcr/:symbol with any symbol (part_001:313-327, server.js:478-491).
\* A symbol is the sequence of its characters.

LowerCase == <<"a", "b", "e", "f", "i", "k", "n", "s", "t", "x", "y">>
UpperCase == <<"A", "B", "E", "F", "I", "K", "N", "S", "T", "X", "Y">>

\* String.prototype.toUpperCase on one character
UpperChar(c) ==
  IF \E i \in 1..Len(LowerCase) : LowerCase[i] = c
  THEN UpperCase[CHOOSE i \in 1..Len(LowerCase) : LowerCase[i] = c]
  ELSE c

\* part_001:314, server.js:479  req.params.symbol.toUpperCase()
toUpperCase(symbol) == [i \in 1..Len(symbol) |-> UpperChar(symbol[i])]

NIFTY == <<"N", "I", "F", "T", "Y">>
BANKNIFTY == <<"B", "A", "N", "K", "N", "I", "F", "T", "Y">>

\* part_001:316, server.js:481
ValidSymbols == {NIFTY, BANKNIFTY}

\* the symbols requested
RequestSymbols ==
  {NIFTY, <<"n", "i", "f", "t", "y">>,
   <<"B", "a", "n", "k", "N", "i", "f", "t", "y">>,
   <<"S", "E", "N", "S", "E", "X">>, <<"n", "i", "f", "t", "y", "5", "0">>,
   <<"b", "a", "n", "k">>}

\* part_001:316-318, server.js:481-483  res.status(400).json(...)
InvalidSymbolReply ==
  [status |-> 400, success |-> FALSE, error |-> "Invalid symbol",
   pcr |-> FALSE, fetchFailed |-> FALSE]

\* faulty variant: the symbol is not validated
GetPcrNoCheck(t, symbol) ==
  /\ net.variant = "part_001"
  /\ task[t].pc = "idle"
  /\ net' = [net EXCEPT !.calls = @ + 1, !.symbol = symbol]
  /\ enterFetchOptionChain(t, DEFAULT_RETRIES)
  /\ UNCHANGED <<now, sessionData>>

\* part_001:313-321  the handler up to its first suspension
GetPcr(t, symbol) ==
  /\ net.variant = "part_001"
  /\ task[t].pc = "idle"
  /\ IF toUpperCase(symbol) \notin ValidSymbols
     THEN /\ net' = [net EXCEPT !.calls = @ + 1, !.symbol = symbol,
                                !.reply = InvalidSymbolReply]
          /\ UNCHANGED <<now, sessionData, lastRequestTime, task>>
     ELSE /\ net' = [net EXCEPT !.calls = @ + 1, !.symbol = symbol]
          /\ enterFetchOptionChain(t, DEFAULT_RETRIES)
          /\ UNCHANGED <<now, sessionData>>

\* server.js:478-485  the handler up to its first suspension
ServerGetPcr(t, symbol) ==
  /\ net.variant = "server"
  /\ task[t].pc = "idle"
  /\ IF toUpperCase(symbol) # NIFTY /\ toUpperCase(symbol) # BANKNIFTY
     THEN /\ net' = [net EXCEPT !.calls = @ + 1, !.symbol = symbol,
                                !.reply = InvalidSymbolReply]
          /\ UNCHANGED <<now, sessionData, lastRequestTime, task>>
     ELSE /\ net' = [net EXCEPT !.calls = @ + 1, !.symbol = symbol]
          /\ task' = [task EXCEPT ![t] = ServerCallFrame]
          /\ UNCHANGED <<now, sessionData, lastRequestTime>>

NextRoutes ==
  \/ /\ net.calls < MaxHandlerCalls
     /\ \E symbol \in RequestSymbols : GetPcr("http", symbol)
  \/ Fetch("http")
  \/ /\ net.variant = "part_001"
     /\ HttpReply("http")
  \/ /\ net.calls < MaxHandlerCalls
     /\ \E symbol \in RequestSymbols : ServerGetPcr("http", symbol)
  \/ ServerFetch("http")
  \/ /\ net.variant = "server"
     /\ ServerHttpReply("http")
  \/ AdvanceTime

SpecRoutes == InitHandlers /\ [][NextRoutes]_vars

\* The schedule of either variant: the five-minute job of part_001 or the
\* every-minute job of server.js
NextSchedules ==
  \/ /\ net.variant = "part_001"
     /\ NextJob
  \/ /\ net.variant = "server"
     /\ NextServerPcr

SpecSchedules == InitHandlers /\ [][NextSchedules]_vars

\* The two callers of either variant running concurrently: the stores of
\* part_001:136-138 and of server.js:123-124 between the steps of another call
NextStores ==
  \/ /\ net.variant = "part_001"
     /\ NextLatency
  \/ /\ net.variant = "server"
     /\ NextServer

SpecStores == InitHandlers /\ [][NextStores]_vars

-----------------------------------------------------------------------------
\* autoFetchJob of part_000 (lines 183-217) with its two callers, the cron
\* callback (219-225) and POST /api/trigger (283-290).  The job of the cron
\* callback runs in frame "cron", the job of the request handler in frame
\* "http"; net.jobs holds the loop position of each.  fetchOptionChain is
\* taken as one await that resolves or rejects.

SYMBOL_PAUSE == 3000

\* part_000:183-198  autoFetchJob is called: with the market closed it returns
\* at once, otherwise the loop starts with the first symbol
startAutoFetchJob(t, isOpen, tick) ==
  IF isOpen
  THEN /\ net' = [net EXCEPT
            !.calls = IF t = "http" THEN @ + 1 ELSE @,
            !.jobs[t] = [i |-> 1, lastTick |-> tick, outcomes |-> <<>>,
                         settled |-> "pending", open |-> TRUE]]
       /\ task' = [task EXCEPT ![t].pc = "jobFetch",
                               ![t].wake = now + NetLatency]
  ELSE /\ net' = [net EXCEPT
            !.calls = IF t = "http" THEN @ + 1 ELSE @,
            !.jobs[t].lastTick = tick,
            !.jobs[t].open = FALSE,
            !.reply = IF t = "http"
                      THEN [NoReply EXCEPT !.status = 200, !.success = TRUE]
                      ELSE @]
       /\ UNCHANGED task

\* part_000:219-225  the cron callback
TickPart000 ==
  /\ now % CRON_PERIOD = 0
  /\ net.jobs["cron"].lastTick # now
  /\ task["cron"].pc = "idle"
  /\ \E isOpen \in BOOLEAN :
       IF isOpen THEN startAutoFetchJob("cron", TRUE, now)
       ELSE /\ net' = [net EXCEPT !.jobs["cron"].lastTick = now,
                                  !.jobs["cron"].open = FALSE]
            /\ UNCHANGED task
  /\ UNCHANGED <<now, sessionData, lastRequestTime>>

\* part_000:283-285  POST /api/trigger arrives, at any moment
TriggerPost ==
  /\ task["http"].pc = "idle"
  /\ net.calls < MaxTriggers
  /\ \E isOpen \in BOOLEAN :
       startAutoFetchJob("http", isOpen, net.jobs["http"].lastTick)
  /\ UNCHANGED <<now, sessionData, lastRequestTime>>

\* part_000:194-216, 286  the loop goes on to the next symbol, or the job
\* ends and the handler that awaited it answers
jobContinue(t, outcomes) ==
  IF net.jobs[t].i < Len(Symbols)
  THEN /\ net' = [net EXCEPT !.jobs[t].i = @ + 1,
                             !.jobs[t].outcomes = outcomes]
       /\ task' = [task EXCEPT ![t].pc = "jobFetch",
                               ![t].wake = now + NetLatency]
  ELSE /\ net' = [net EXCEPT
            !.jobs[t].i = 0,
            !.jobs[t].outcomes = outcomes,
            !.jobs[t].settled = "resolved",
            !.reply = IF t = "http"
                      THEN [NoReply EXCEPT !.status = 200, !.success = TRUE]
                      ELSE @]
       /\ task' = [task EXCEPT ![t] = IdleTask]

\* part_000:197-215  the awaited fetchOptionChain settles: after a success
\* the loop body sleeps 3 s, a failure is caught and logged
JobFetchSettles(t) ==
  /\ task[t].pc = "jobFetch"
  /\ now >= task[t].wake
  /\ \E ok \in BOOLEAN :
       IF ok
       THEN /\ net' = [net EXCEPT !.jobs[t].outcomes = Append(@, "ok")]
            /\ task' = [task EXCEPT ![t].pc = "jobPause",
                                    ![t].wake = now + SYMBOL_PAUSE]
       ELSE jobContinue(t, Append(net.jobs[t].outcomes, "failed"))
  /\ UNCHANGED <<now, sessionData, lastRequestTime>>

\* part_000:212  the pause after a symbol is over
JobPauseEnd(t) ==
  /\ task[t].pc = "jobPause"
  /\ now >= task[t].wake
  /\ jobContinue(t, net.jobs[t].outcomes)
  /\ UNCHANGED <<now, sessionData, lastRequestTime>>

NextTrigger ==
  \/ TickPart000
  \/ TriggerPost
  \/ \E t \in Tasks : JobFetchSettles(t)
  \/ \E t \in Tasks : JobPauseEnd(t)
  \/ AdvanceTime

SpecTrigger == Init /\ [][NextTrigger]_vars


-----------------------------------------------------------------------------
\* fetchOptionChain and initializeNSESession of part_000 (lines 24-103): no
\* rate gate, no failure counter, the client's default validateStatus (2xx).
\* The frames use the fields of task.

PART000_TTL == 3 * 60 * 1000
PART000_HOME_DELAY == 1500
PART000_DATA_DELAY == 2000
PART000_BACKOFF == 3000

\* part_000:27  sessionData.cookies && (now - sessionData.timestamp) < ttl
SessionValidPart000(n) ==
  /\ Truthy(sessionData.cookies)
  /\ (n - sessionData.timestamp) < PART000_TTL

\* part_000:24-43  initializeNSESession up to its first suspension
initializeNSESessionPart000(t, self, forceRefresh) ==
  LET s == [self EXCEPT !.force = forceRefresh, !.sNow = now, !.hs = <<>>,
                        !.old = [cookies |-> sessionData.cookies,
                                 timestamp |-> sessionData.timestamp]]
  IN IF ~forceRefresh /\ SessionValidPart000(now)
     THEN task' = [task EXCEPT ![t] =
                     [s EXCEPT !.pc = "gotSession",
                               !.cookies = sessionData.cookies]]
     ELSE task' = [task EXCEPT ![t] =
                     [s EXCEPT !.pc = "await", !.req = "home",
                               !.hs = <<"home">>,
                               !.wake = now + NetLatency]]

\* part_000:72-74  head of the attempt loop
attemptLoopPart000(t, self) ==
  IF self.attempt <= self.retries
  THEN initializeNSESessionPart000(t, self, self.attempt > 1)
  ELSE task' = [task EXCEPT ![t] =
                  [self EXCEPT !.pc = "done",
                               !.result = [kind |-> "undefined",
                                           data |-> "none"]]]

\* part_000:71-74  a caller calls fetchOptionChain(symbol, retries)
fetchOptionChainPart000(t, retries) ==
  /\ task[t].pc = "idle"
  /\ net' = [net EXCEPT !.calls = @ + 1]
  /\ attemptLoopPart000(t, [IdleTask EXCEPT !.retries = retries,
                                            !.attempt = 1])
  /\ UNCHANGED <<now, sessionData, lastRequestTime>>

\* part_000:35-46  the landing request (timeout: 15000), then if (!cookies)
HomeCausePart000(r) ==
  IF r.status = NoResponse THEN "Network"
  ELSE IF ~(r.status >= 200 /\ r.status < 300) THEN "AxiosStatus"
  ELSE IF ~r.hasSetCookie THEN "NoCookies"
  ELSE "none"

\* part_000:64-67  catch of initializeNSESession: logs and rethrows
sessionCatchPart000(t, cause) ==
  task' = [task EXCEPT ![t].pc = "sessThrown",
                       ![t].error = [cause |-> cause,
                                     attempt |-> task[t].attempt],
                       ![t].nSessFail = @ + 1]

\* part_000:35-48  the landing request settles
HomeResponsePart000(t, r) ==
  /\ task[t].pc = "await" /\ task[t].req = "home"
  /\ now >= task[t].wake
  /\ IF HomeCausePart000(r) = "none"
     THEN task' = [task EXCEPT ![t].pc = "delay1",
                               ![t].setCookie = r.setCookie,
                               ![t].wake = now + PART000_HOME_DELAY]
     ELSE sessionCatchPart000(t, HomeCausePart000(r))
  /\ UNCHANGED <<now, sessionData, lastRequestTime, net>>

\* part_000:48-58  the delay ends: the cookie string is built and the
\* option-chain page is requested
Delay1EndPart000(t) ==
  /\ task[t].pc = "delay1"
  /\ now >= task[t].wake
  /\ task' = [task EXCEPT ![t].pc = "await", ![t].req = "chain",
                          ![t].cookieString = CookieString(task[t].setCookie),
                          ![t].hs = Append(@, "chain"),
                          ![t].wake = now + NetLatency]
  /\ UNCHANGED <<now, sessionData, lastRequestTime, net>>

\* part_000:52-67  the option-chain page settles: the session is stored and
\* returned, or the error is rethrown
ChainResponsePart000(t, status) ==
  /\ task[t].pc = "await" /\ task[t].req = "chain"
  /\ now >= task[t].wake
  /\ IF status = NoResponse
     THEN /\ sessionCatchPart000(t, "Network")
          /\ UNCHANGED sessionData
     ELSE IF ~(status >= 200 /\ status < 300)
     THEN /\ sessionCatchPart000(t, "AxiosStatus")
          /\ UNCHANGED sessionData
     ELSE /\ sessionData' =
               [sessionData EXCEPT !.cookies = task[t].cookieString,
                                   !.timestamp = task[t].sNow]
          /\ task' = [task EXCEPT ![t].pc = "gotSession",
                                  ![t].cookies = task[t].cookieString]
  /\ UNCHANGED <<now, lastRequestTime, net>>

\* part_000:52-58  the option-chain page request carries no timeout: the
\* upstream never answers and the request never settles
ChainNeverPart000(t) ==
  /\ task[t].pc = "await" /\ task[t].req = "chain"
  /\ task' = [task EXCEPT ![t].pc = "hung"]
  /\ UNCHANGED <<now, sessionData, lastRequestTime, net>>

\* part_000:74-75  initializeNSESession has resolved: the 2000 ms pause
AfterSessionPart000(t) ==
  /\ task[t].pc = "gotSession"
  /\ task' = [task EXCEPT ![t].pc = "delay2",
                          ![t].wake = now + PART000_DATA_DELAY]
  /\ UNCHANGED <<now, sessionData, lastRequestTime, net>>

\* part_000:98-101  catch of fetchOptionChain
fetchCatchPart000(t, self, err) ==
  IF self.attempt = self.retries
  THEN task' = [task EXCEPT ![t] =
                  [self EXCEPT !.pc = "done", !.error = err,
                               !.result = [kind |-> "rejected",
                                           data |-> err.cause]]]
  ELSE task' = [task EXCEPT ![t] =
                  [self EXCEPT !.pc = "backoff", !.error = err,
                               !.wake = now + self.attempt * PART000_BACKOFF]]

\* part_000:74, 98-101  initializeNSESession has rejected
SessionRejectedPart000(t) ==
  /\ task[t].pc = "sessThrown"
  /\ fetchCatchPart000(t, task[t], task[t].error)
  /\ UNCHANGED <<now, sessionData, lastRequestTime, net>>

\* part_000:75-88  the pause ends: the data request is sent
Delay2EndPart000(t) ==
  /\ task[t].pc = "delay2"
  /\ now >= task[t].wake
  /\ task' = [task EXCEPT ![t].pc = "await", ![t].req = "data",
                          ![t].nData = @ + 1,
                          ![t].wake = now + NetLatency]
  /\ UNCHANGED <<now, sessionData, lastRequestTime, net>>

\* part_000:79-95  the data request (timeout: 20000), then
\* response.data && response.data.records
DataCausePart000(r) ==
  IF r.status = NoResponse THEN "Network"
  ELSE IF ~(r.status >= 200 /\ r.status < 300) THEN "AxiosStatus"
  ELSE IF r.body = "records" THEN "none"
  ELSE "Invalid"

\* part_000:79-101  the data request settles
DataResponsePart000(t, r) ==
  /\ task[t].pc = "await" /\ task[t].req = "data"
  /\ now >= task[t].wake
  /\ LET self == [task[t] EXCEPT !.resp = r]
     IN IF DataCausePart000(r) = "none"
        THEN task' = [task EXCEPT ![t] =
                        [self EXCEPT !.pc = "done",
                                     !.result = [kind |-> "resolved",
                                                 data |-> r.body]]]
        ELSE fetchCatchPart000(t, self, [cause |-> DataCausePart000(r),
                                         attempt |-> self.attempt])
  /\ UNCHANGED <<now, sessionData, lastRequestTime, net>>

\* part_000:101, 72-74  the retry timer fires: next attempt
BackoffEndPart000(t) ==
  /\ task[t].pc = "backoff"
  /\ now >= task[t].wake
  /\ attemptLoopPart000(t, [task[t] EXCEPT !.attempt = @ + 1,
                                           !.error = NoError,
                                           !.resp = NoResp])
  /\ UNCHANGED <<now, sessionData, lastRequestTime, net>>

FetchPart000(t) ==
  \/ \E r \in HomeResponses : HomeResponsePart000(t, r)
  \/ Delay1EndPart000(t)
  \/ \E status \in PageStatuses : ChainResponsePart000(t, status)
  \/ ChainNeverPart000(t)
  \/ AfterSessionPart000(t)
  \/ SessionRejectedPart000(t)
  \/ Delay2EndPart000(t)
  \/ \E r \in DataResponses : DataResponsePart000(t, r)
  \/ BackoffEndPart000(t)

\* part_000:197, 71  one caller at a time, with any retries argument (the
\* call site uses the default, 3)
NextPart000 ==
  \/ /\ net.calls < MaxCalls
     /\ \E retries \in RetryChoices : fetchOptionChainPart000("cron", retries)
  \/ FetchPart000("cron")
  \/ Return("cron")
  \/ AdvanceTime

SpecPart000 == Init /\ [][NextPart000]_vars

\* One caller at a time in part_001 or in part_000
InitSequential ==
  /\ now = StartTime
  /\ sessionData = [cookies |-> NullToken, timestamp |-> NullTime,
                    consecutiveFailures |-> 0]
  /\ lastRequestTime = 0
  /\ task = [t \in Tasks |-> IdleTask]
  /\ \E variant \in {"part_001", "part_000"} :
       net = [InitNet EXCEPT !.variant = variant]

NextSequential ==
  \/ /\ net.variant = "part_001"
     /\ Next
  \/ /\ net.variant = "part_000"
     /\ NextPart000

SpecSequential == InitSequential /\ [][NextSequential]_vars

-----------------------------------------------------------------------------
\* What becomes of a data response once fetchOptionChain has it: the
\* acceptance test (part_001:186-201), then calculatePCR in the callers
\* (part_001:218-248, called at 276 and 322); in server.js both are inline in
\* fetchPCRData (155-196).  The sums of openInterest stand for the three pairs
\* of sums, which are computed alike.

MaxItems == 2
LegValues == {NoLeg, 0, 1, 3}

Items == [CE : LegValues, PE : LegValues]

RECURSIVE ItemLists(_)
ItemLists(n) ==
  IF n = 0 THEN {<<>>}
  ELSE ItemLists(n - 1)
         \cup {Append(l, i) : l \in {k \in ItemLists(n - 1) : Len(k) = n - 1},
                              i \in Items}

Payloads ==
  {NoPayload,
   [hasBody |-> TRUE, hasRecords |-> FALSE, hasData |-> FALSE,
    items |-> <<>>],
   [hasBody |-> TRUE, hasRecords |-> TRUE, hasData |-> FALSE,
    items |-> <<>>]}
    \cup {[hasBody |-> TRUE, hasRecords |-> TRUE, hasData |-> TRUE,
           items |-> l] : l \in ItemLists(MaxItems)}

AggregateStatuses == {200, 201, 403, 404}

\* part_001:186-201  the response is returned to the caller: status 200 and
\* response.data && response.data.records
Accepted(status, payload) ==
  /\ status # 403
  /\ status = 200
  /\ payload.hasBody /\ payload.hasRecords

\* server.js:141-155  the client's default validateStatus; the body is taken
\* as it is
ServerAccepted(status, payload) ==
  status >= 200 /\ status < 300

RECURSIVE SumCE(_)
\* part_001:223-228  if (item.CE) totalCallOI += item.CE.openInterest || 0
SumCE(items) ==
  IF Len(items) = 0 THEN 0
  ELSE (IF items[1].CE = NoLeg THEN 0 ELSE items[1].CE) + SumCE(Tail(items))

RECURSIVE SumPE(_)
\* part_001:229-233  if (item.PE) totalPutOI += item.PE.openInterest || 0
SumPE(items) ==
  IF Len(items) = 0 THEN 0
  ELSE (IF items[1].PE = NoLeg THEN 0 ELSE items[1].PE) + SumPE(Tail(items))

\* part_001:236, 241  parseFloat((put / call).toFixed(2)), in hundredths
Ratio(put, call) ==
  IF call > 0 THEN (200 * put + call) \div (2 * call) ELSE 0

Totals(items) ==
  [totalCallOI |-> SumCE(items), totalPutOI |-> SumPE(items),
   pcr |-> Ratio(SumPE(items), SumCE(items))]

\* part_001:218-248  calculatePCR: data.records.data.forEach raises a
\* TypeError when records has no data list
calculatePCR(data) ==
  IF ~data.hasData
  THEN [out |-> "threw", totals |-> NoTotals]
  ELSE [out |-> "returned", totals |-> Totals(data.items)]

\* server.js:155-190  the totals inline in fetchPCRData: data.records raises
\* a TypeError on a null body, which the catch turns into a failure result;
\* the list is summed only if (data.records && data.records.data)
serverTotals(data) ==
  IF ~data.hasBody
  THEN [out |-> "threw", totals |-> NoTotals]
  ELSE IF data.hasRecords /\ data.hasData
  THEN [out |-> "returned", totals |-> Totals(data.items)]
  ELSE [out |-> "returned", totals |-> NoTotals]

InitAggregate ==
  /\ now = StartTime
  /\ sessionData = [cookies |-> NullToken, timestamp |-> NullTime,
                    consecutiveFailures |-> 0]
  /\ lastRequestTime = 0
  /\ task = [t \in Tasks |-> IdleTask]
  /\ \E variant \in {"part_001", "server"}, status \in AggregateStatuses,
        payload \in Payloads :
       net = [InitNet EXCEPT
                !.variant = variant,
                !.aggregate = [NoAggregate EXCEPT !.status = status,
                                                  !.payload = payload]]

\* part_001:186-201, 275-276, 321-322  the payload is accepted and handed to
\* calculatePCR
Aggregate ==
  /\ net.variant = "part_001"
  /\ net.aggregate.out = "none"
  /\ Accepted(net.aggregate.status, net.aggregate.payload)
  /\ LET r == calculatePCR(net.aggregate.payload)
     IN net' = [net EXCEPT !.aggregate.out = r.out,
                           !.aggregate.totals = r.totals]
  /\ UNCHANGED <<now, sessionData, lastRequestTime, task>>

\* part_001:186-201  the response is refused: fetchOptionChain throws
Refuse ==
  /\ net.variant = "part_001"
  /\ net.aggregate.out = "none"
  /\ ~Accepted(net.aggregate.status, net.aggregate.payload)
  /\ net' = [net EXCEPT !.aggregate.out = "refused"]
  /\ UNCHANGED <<now, sessionData, lastRequestTime, task>>

\* server.js:141-196  the response has arrived with a 2xx status: the totals
ServerAggregate ==
  /\ net.variant = "server"
  /\ net.aggregate.out = "none"
  /\ ServerAccepted(net.aggregate.status, net.aggregate.payload)
  /\ LET r == serverTotals(net.aggregate.payload)
     IN net' = [net EXCEPT !.aggregate.out = r.out,
                           !.aggregate.totals = r.totals]
  /\ UNCHANGED <<now, sessionData, lastRequestTime, task>>

\* server.js:141-152, 193-196  the client rejects the status
ServerRefuse ==
  /\ net.variant = "server"
  /\ net.aggregate.out = "none"
  /\ ~ServerAccepted(net.aggregate.status, net.aggregate.payload)
  /\ net' = [net EXCEPT !.aggregate.out = "refused"]
  /\ UNCHANGED <<now, sessionData, lastRequestTime, task>>

NextAggregate == Aggregate \/ Refuse \/ ServerAggregate \/ ServerRefuse

SpecAggregate == InitAggregate /\ [][NextAggregate]_vars

-----------------------------------------------------------------------------
\* The market-data side of server.js: the closing snapshot, the job that
\* refreshes it every two minutes and the daily reset.  Each of the four
\* fetchers of autoFetchMarketData catches its own errors and returns a list
\* (server.js:200-341); the lists are taken by their lengths, empty or not.
\* The catch of autoFetchMarketData (383-389) has nothing to catch and is
\* left out.

ListLengths == {0, 1}

\* faulty variant: the snapshot is replaced whatever was fetched
KeepsSnapshotAlways(indices, gainers) == TRUE

\* server.js:365  if (indices.length > 0 || gainers.length > 0)
KeepsSnapshot(indices, gainers) == indices > 0 \/ gainers > 0

\* server.js:586-603  the callback of app.listen: the sample data are loaded
\* when no index is stored
Listen ==
  /\ ~net.started
  /\ net' = [net EXCEPT
       !.started = TRUE,
       !.closingData = IF @.indices = 0 THEN SAMPLE_CLOSING_DATA ELSE @]
  /\ UNCHANGED <<now, sessionData, lastRequestTime, task>>

\* server.js:576-578, 597-599  autoFetchMarketData is called, by the
\* two-minute schedule or by the initial fetch: its four requests go out
MarketTick ==
  /\ net.marketJobs < MaxMarketJobs
  /\ net' = [net EXCEPT !.marketJobs = @ + 1]
  /\ UNCHANGED <<now, sessionData, lastRequestTime, task>>

\* server.js:348-381  Promise.all has resolved: the live data are replaced,
\* and the closing snapshot with them when an index or a gainer was fetched
MarketDataSettled ==
  /\ net.marketJobs > 0
  /\ \E indices \in ListLengths, gainers \in ListLengths,
        losers \in ListLengths, active \in ListLengths,
        isOpen \in BOOLEAN :
       net' = [net EXCEPT
         !.marketJobs = @ - 1,
         !.marketData = [indices |-> indices, gainers |-> gainers,
                         losers |-> losers, mostActive |-> active,
                         updated |-> TRUE],
         !.closingData =
            IF KeepsSnapshot(indices, gainers)
            THEN [indices |-> indices, gainers |-> gainers,
                  losers |-> losers, mostActive |-> active,
                  sample |-> FALSE]
            ELSE IF @.indices = 0 THEN SAMPLE_CLOSING_DATA
            ELSE @,
         !.todayHistory.marketOpen = isOpen]
  /\ UNCHANGED <<now, sessionData, lastRequestTime, task>>

\* server.js:436-456, 580-583  resetDailyData on a new date
ResetDailyData ==
  /\ net' = [net EXCEPT !.todayHistory = ResetHistory(TRUE),
                        !.marketData = ResetMarketData(TRUE)]
  /\ UNCHANGED <<now, sessionData, lastRequestTime, task>>

NextMarket ==
  \/ Listen
  \/ MarketTick
  \/ MarketDataSettled
  \/ ResetDailyData

SpecMarket == Init /\ [][NextMarket]_vars

----------------------------------------------------------------------------
\* The backoff delay as a function of the attempt that failed and of the
\* random draw (part_001:207-213).  The setTimeout delay is a whole number of
\* milliseconds: the draw Math.random() * 5000 counts by its integer part.
AllJitter == 0..(BACKOFF_JITTER - 1)

\* the catch of fetchOptionChain has been entered by an attempt that is not
\* the last one
InitBackoff ==
  /\ now = StartTime
  /\ sessionData = [cookies |-> NullToken, timestamp |-> NullTime,
                    consecutiveFailures |-> 0]
  /\ lastRequestTime = 0
  /\ net = InitNet
  /\ \E attempt \in 1..MaxBackoffAttempts :
       \E retries \in (attempt + 1)..(MaxBackoffAttempts + 1) :
         task = [t \in Tasks |->
                   IF t = "cron"
                   THEN [IdleTask EXCEPT !.pc = "caught",
                                         !.retries = retries,
                                         !.attempt = attempt]
                   ELSE IdleTask]

\* part_001:211-213  the delay is drawn and the timer set
SleepBackoff(t) ==
  /\ task[t].pc = "caught"
  /\ ~LastAttempt(task[t].attempt, task[t].retries)
  /\ \E jitter \in AllJitter :
       task' = [task EXCEPT ![t].pc = "backoff",
                            ![t].wake = now + BackoffDelay(jitter)]
  /\ UNCHANGED <<now, sessionData, lastRequestTime, net>>

NextBackoff == SleepBackoff("cron")

SpecBackoff == InitBackoff /\ [][NextBackoff]_vars

\* Successive backoffs of one call (part_001:160-214): every attempt but the
\* last that fails draws a fresh delay.  The draws are sampled over the whole
\* range of Math.random() * 5000, both ends included.
JitterSamples == {j \in AllJitter : j % 100 = 0} \cup {BACKOFF_JITTER - 1}

\* part_001:211-213  the delay is drawn and the timer set; the frame still
\* holds the wake-up time of the backoff before it
RetrySleep(t) ==
  /\ task[t].pc = "caught"
  /\ ~LastAttempt(task[t].attempt, task[t].retries)
  /\ \E jitter \in JitterSamples :
       task' = [task EXCEPT ![t].pc = "backoff",
                            ![t].wake = now + BackoffDelay(jitter)]
  /\ UNCHANGED <<now, sessionData, lastRequestTime, net>>

\* part_001:160, 203-206  the timer has fired, the loop has gone round and the
\* next attempt has failed too: the catch is entered with attempt + 1
RetryFails(t) ==
  /\ task[t].pc = "backoff"
  /\ task' = [task EXCEPT ![t].pc = "caught",
                          ![t].attempt = task[t].attempt + 1]
  /\ UNCHANGED <<now, sessionData, lastRequestTime, net>>

NextBackoffSeq == RetrySleep("cron") \/ RetryFails("cron")

SpecBackoffSeq == InitBackoff /\ [][NextBackoffSeq]_vars

-----------------------------------------------------------------------------
\* The market-hours predicates, as functions of the clock.  Here now counts
\* the milliseconds since a Sunday 00:00 UTC.

HOUR == 60 * MINUTE
DAY == 24 * HOUR
WEEK == 7 * DAY

\* Date.prototype.getUTCDay, getUTCHours, getUTCMinutes
getUTCDay(n) == (n \div DAY) % 7
getUTCHours(n) == (n \div HOUR) % 24
getUTCMinutes(n) == (n \div MINUTE) % 60

\* part_001:258-259, server.js:96-97
marketOpen == 9 * 60 + 15
marketClose == 15 * 60 + 30

\* part_000:169-181  the offset is added to the hour and to the minute, the
\* day is the UTC day
isMarketOpenPart000(n) ==
  LET hour == getUTCHours(n) + 5
      minute == getUTCMinutes(n) + 30
      day == getUTCDay(n)
      isWeekday == day >= 1 /\ day <= 5
      currentMinutes == hour * 60 + minute
  IN isWeekday /\ currentMinutes >= marketOpen /\ currentMinutes <= marketClose

\* faulty variant: the closing minute is left out
isMarketOpenExclusive(n) ==
  LET istOffset == (11 * 60) \div 2
      utcMinutes == getUTCHours(n) * 60 + getUTCMinutes(n)
      totalMinutes == utcMinutes + istOffset
      istDayIndex ==
        (getUTCDay(n) + (IF totalMinutes >= 24 * 60 THEN 1 ELSE 0)) % 7
      istMinutes == totalMinutes % (24 * 60)
      isWeekday == istDayIndex >= 1 /\ istDayIndex <= 5
  IN isWeekday /\ istMinutes >= marketOpen /\ istMinutes < marketClose

\* part_001:250-261 (part_003:169-180 and part_004:147-158 are the same text)
isMarketOpenAt(n) ==
  LET istOffset == (11 * 60) \div 2
      utcMinutes == getUTCHours(n) * 60 + getUTCMinutes(n)
      totalMinutes == utcMinutes + istOffset
      istDayIndex ==
        (getUTCDay(n) + (IF totalMinutes >= 24 * 60 THEN 1 ELSE 0)) % 7
      istMinutes == totalMinutes % (24 * 60)
      isWeekday == istDayIndex >= 1 /\ istDayIndex <= 5
  IN isWeekday /\ istMinutes >= marketOpen /\ istMinutes <= marketClose

\* server.js:84-100 (part_004:365-380 computes the same): the clock is
\* shifted by the offset and read through the UTC accessors
isMarketHoursAt(n) ==
  LET istOffset == (11 * HOUR) \div 2
      istTime == n + istOffset
      hours == getUTCHours(istTime)
      minutes == getUTCMinutes(istTime)
      day == getUTCDay(istTime)
  IN IF day = 0 \/ day = 6 THEN FALSE
     ELSE LET currentMinutes == hours * 60 + minutes
          IN currentMinutes >= marketOpen /\ currentMinutes <= marketClose

\* any minute of the week, at its first or at its last millisecond
InitClock ==
  /\ \E k \in 0..((WEEK \div MINUTE) - 1) :
       \E ms \in {0, MINUTE - 1} : now = k * MINUTE + ms
  /\ sessionData = [cookies |-> NullToken, timestamp |-> NullTime,
                    consecutiveFailures |-> 0]
  /\ lastRequestTime = 0
  /\ task = [t \in Tasks |-> IdleTask]
  /\ net = InitNet

\* each variant's predicate is evaluated on the same clock
CheckMarket ==
  /\ task["cron"].pc = "idle"
  /\ task' = [task EXCEPT
       !["cron"].pc = "checked",
       !["cron"].result = [part_000 |-> isMarketOpenPart000(now),
                           part_001 |-> isMarketOpenAt(now),
                           server |-> isMarketHoursAt(now)]]
  /\ UNCHANGED <<now, sessionData, lastRequestTime, net>>

NextClock == CheckMarket

SpecClock == InitClock /\ [][NextClock]_vars

----------------------------------------------------------------------------
\* Properties

Handshake == <<"home", "quote", "chain">>

\* the step in which caller t enters initializeNSESession: the loop head is
\* reached from the call itself, from the cooldown timer or from the backoff
\* timer
EntersSession(t) ==
  /\ task[t].pc \in {"idle", "cooldown", "backoff"}
  /\ task'[t].pc \in {"gotSession", "gateWait", "gateRet"}

\* the step in which initializeNSESession of caller t stores and returns a new
\* session
CompletesHandshake(t) ==
  /\ task[t].pc = "delay3"
  /\ task'[t].pc = "gotSession"

\* the token stored when initializeNSESession was entered was usable then
OldValid(t) ==
  /\ task[t].old.cookies # NullToken
  /\ task[t].sNow - task[t].old.timestamp < SESSION_TTL

\* C1: initializeNSESession(false), called while a token is stored and
\* now - timestamp < ttl, returns the stored token in the same step, without a
\* request and without a pass through waitForRateLimit, and leaves the
\* stored token, its timestamp, the failure counter and lastRequestTime as they
\* were (the counter is zeroed in that step only by the caller's own cooldown
\* reset, part_001:157).
SessionReuse ==
  [][\A t \in Tasks :
       ( /\ EntersSession(t)
         /\ ~task'[t].force
         /\ sessionData.cookies # NullToken
         /\ now - sessionData.timestamp < SESSION_TTL )
       => /\ task'[t].pc = "gotSession"
          /\ task'[t].cookies = sessionData.cookies
          /\ task'[t].hs = <<>>
          /\ sessionData'.cookies = sessionData.cookies
          /\ sessionData'.timestamp = sessionData.timestamp
          /\ sessionData'.consecutiveFailures =
               (IF task[t].pc = "cooldown" THEN 0
                ELSE sessionData.consecutiveFailures)
          /\ lastRequestTime' = lastRequestTime
          /\ net'.lastIssue = net.lastIssue]_vars

SessionReuseWitness ==
  \E t \in Tasks :
    /\ task[t].pc = "gotSession"
    /\ ~task[t].force
    /\ task[t].hs = <<>>
    /\ OldValid(t)
    /\ task[t].cookies = task[t].old.cookies
    /\ sessionData.cookies = task[t].old.cookies
    /\ sessionData.timestamp = task[t].old.timestamp

\* C2: initializeNSESession(false), called with no token stored or with
\* now - timestamp >= ttl (equality included), starts the handshake instead of
\* returning the stored token; when it completes it has issued the landing,
\* quote and option-chain requests in that order, and the token it stores is
\* the one it derived from the landing response and the one it returns.
SessionExpiry ==
  [][\A t \in Tasks :
       /\ ( /\ EntersSession(t)
            /\ ~task'[t].force
            /\ \/ sessionData.cookies = NullToken
               \/ now - sessionData.timestamp >= SESSION_TTL )
          => /\ task'[t].pc \in {"gateWait", "gateRet"}
             /\ task'[t].req = "home"
       /\ (CompletesHandshake(t) /\ ~task[t].force)
          => /\ ~OldValid(t)
             /\ task[t].hs = Handshake
             /\ sessionData'.cookies = CookieString(task[t].setCookie)
             /\ task'[t].cookies = sessionData'.cookies]_vars

SessionExpiryWitness ==
  \E t \in Tasks :
    /\ task[t].pc = "gotSession"
    /\ ~task[t].force
    /\ task[t].hs = Handshake
    /\ task[t].old.cookies # NullToken
    /\ task[t].sNow - task[t].old.timestamp = SESSION_TTL
    /\ task[t].cookies # task[t].old.cookies
    /\ sessionData.cookies = task[t].cookies

\* C3: initializeNSESession(true) starts the handshake whatever the stored
\* session is, also one still within its ttl; when it completes it has issued
\* the three handshake requests in order and the token it stores and returns is
\* the newly derived one.
ForcedRefresh ==
  [][\A t \in Tasks :
       /\ (EntersSession(t) /\ task'[t].attempt > 1)
          => task'[t].force
       /\ (EntersSession(t) /\ task'[t].force)
          => /\ task'[t].pc \in {"gateWait", "gateRet"}
             /\ task'[t].req = "home"
       /\ (CompletesHandshake(t) /\ task[t].force)
          => /\ task[t].hs = Handshake
             /\ sessionData'.cookies = CookieString(task[t].setCookie)
             /\ sessionData'.timestamp = task[t].sNow
             /\ task'[t].cookies = sessionData'.cookies]_vars

ForcedRefreshWitness ==
  \E t \in Tasks :
    /\ task[t].pc = "gotSession"
    /\ task[t].force
    /\ OldValid(t)
    /\ task[t].hs = Handshake
    /\ task[t].cookies # task[t].old.cookies
    /\ sessionData.cookies = task[t].cookies

\* C4: for two consecutive passes through waitForRateLimit, the second called
\* after the first has returned and with no other pass in between, the second
\* returns at least MIN_REQUEST_GAP after the first returned; lastRequestTime
\* is the time of the latest return.
SequentialRateFloor ==
  [][\A t \in Tasks :
       (task'[t].pc = "gateRet" /\ task[t].pc # "gateRet")
       => /\ lastRequestTime' = now
          /\ (task'[t].seen = lastRequestTime /\ lastRequestTime # 0)
             => lastRequestTime' - lastRequestTime >= MIN_REQUEST_GAP]_vars

SequentialRateFloorWitness ==
  \E t \in Tasks :
    /\ task[t].pc = "gateRet"
    /\ task[t].slept
    /\ task[t].seen > 0
    /\ lastRequestTime = now
    /\ now - task[t].seen = MIN_REQUEST_GAP

\* a data request of caller t is being gated, is in flight or has settled
AtDataRequest(t) ==
  /\ task[t].req = "data"
  /\ task[t].pc \in {"gateWait", "gateRet", "await"}

\* the data response of the current attempt of caller t has been classified
Classified(t) ==
  /\ task[t].resp # NoResp
  /\ task[t].pc \in {"backoff", "done"}

\* caller t is between the entry of initializeNSESession's handshake and its
\* return
InHandshake(t) ==
  \/ task[t].pc \in {"delay1", "delay2", "delay3"}
  \/ /\ task[t].pc \in {"gateWait", "gateRet", "await"}
     /\ task[t].req \in {"home", "quote", "chain"}

\* C5: whatever the interleaving of callers, any two consecutive requests to
\* the upstream are issued at least MIN_REQUEST_GAP apart.
RateFloorAllInterleavings == ~net.tooClose

\* C6: at most one caller is inside the session handshake at any time.
SingleFlightAcquisition ==
  Cardinality({t \in Tasks : InHandshake(t)}) <= 1

\* C7: a fetchOptionChain(symbol, k) call, k >= 1, whose handshakes all succeed
\* and whose data requests all fail rejects exactly when attempt k has failed:
\* it has issued k data requests, and the error is the one raised by attempt k.
\* A call that has ended resolved only on a success response; it never ends
\* without a result.
RetryExhaustion ==
  \A t \in Tasks :
    /\ (task[t].result.kind = "rejected" /\ task[t].nSessFail = 0)
       => /\ task[t].attempt = task[t].retries
          /\ task[t].nData = task[t].retries
          /\ task[t].error.attempt = task[t].retries
          /\ task[t].error.cause = DataCause(task[t].resp)
    /\ (task[t].pc = "backoff" /\ task[t].nSessFail = 0)
       => /\ task[t].attempt < task[t].retries
          /\ task[t].nData = task[t].attempt
    /\ (task[t].pc = "done" /\ task[t].retries >= 1)
       => /\ task[t].result.kind \in {"resolved", "rejected"}
          /\ task[t].result.kind = "resolved"
             => (task[t].resp.status = 200 /\ task[t].resp.body = "records")

RetryExhaustionWitness ==
  \E t \in Tasks :
    /\ task[t].pc = "done"
    /\ task[t].result.kind = "rejected"
    /\ task[t].retries = 3
    /\ task[t].nData = 3
    /\ task[t].nSessFail = 0
    /\ task[t].error.attempt = 3

\* C8: attempt 1 of a call does not force a refresh, and sends its data request
\* with the stored token when that token is still within its ttl; every
\* attempt after the first forces one, and sends its data request only after a
\* complete handshake of its own, with the token that handshake stored.  With
\* retries = 3, handshakes that succeed and a 403 to every data request, the
\* call rejects with the blocked cause after exactly 3 data requests.
RefreshOnRetryOnly ==
  \A t \in Tasks :
    /\ (task[t].pc \notin {"idle", "cooldown"} /\ task[t].retries >= 1)
       => (task[t].force <=> task[t].attempt > 1)
    /\ (AtDataRequest(t) /\ task[t].attempt = 1 /\ OldValid(t))
       => /\ task[t].hs = <<>>
          /\ task[t].cookies = task[t].old.cookies
    /\ (AtDataRequest(t) /\ task[t].attempt > 1)
       => /\ task[t].hs = Handshake
          /\ task[t].cookies = task[t].cookieString
    /\ ( /\ task[t].pc = "done"
         /\ task[t].retries = 3
         /\ task[t].only403
         /\ task[t].nSessFail = 0 )
       => /\ task[t].result.kind = "rejected"
          /\ task[t].error.cause = "Blocked"
          /\ task[t].nData = 3

RefreshOnRetryOnlyWitness ==
  \E t \in Tasks :
    /\ task[t].pc = "done"
    /\ task[t].retries = 3
    /\ task[t].only403
    /\ task[t].nSessFail = 0
    /\ task[t].nData = 3
    /\ task[t].force
    /\ task[t].hs = Handshake
    /\ task[t].result.kind = "rejected"

CircuitBreaker ==
  [][\A t \in Tasks :
       /\ ( /\ task[t].pc = "idle"
            /\ task'[t].pc # "idle"
            /\ sessionData.consecutiveFailures >= FAILURE_THRESHOLD )
          => /\ task'[t].pc = "cooldown"
             /\ task'[t].wake = now + COOLDOWN_MS
             /\ task'[t].sNow = NullTime
             /\ task'[t].seen = NullTime
             /\ task'[t].hs = <<>>
             /\ task'[t].nData = 0
             /\ lastRequestTime' = lastRequestTime
             /\ net'.lastIssue = net.lastIssue
             /\ sessionData' = sessionData
       /\ (task[t].pc = "cooldown" /\ task'[t].pc = "cooldown")
          => /\ task'[t] = task[t]
             /\ lastRequestTime' = lastRequestTime
             /\ net' = net
       /\ (task[t].pc = "cooldown" /\ task'[t].pc # "cooldown")
          => now >= task[t].wake]_vars

CircuitBreakerWitness ==
  \E t \in Tasks :
    /\ task[t].pc = "cooldown"
    /\ sessionData.consecutiveFailures = FAILURE_THRESHOLD
    /\ now = task[t].wake

\* the step in which caller t starts a fetchOptionChain call
StartsCall(t) ==
  /\ task[t].pc = "idle"
  /\ task'[t].pc # "idle"

\* C11: a fetchOptionChain call made after three calls in a row have failed
\* begins with the cooldown sleep, and consecutiveFailures is 0 when the call
\* leaves that sleep.
ScenarioD ==
  [][\A t \in Tasks :
       /\ (StartsCall(t) /\ net.streak >= FAILURE_THRESHOLD)
          => /\ task'[t].pc = "cooldown"
             /\ task'[t].wake = now + COOLDOWN_MS
       /\ (task[t].pc = "cooldown" /\ task'[t].pc # "cooldown")
          => sessionData'.consecutiveFailures = 0]_vars

\* C12: a fetchOptionChain call that has succeeded leaves consecutiveFailures
\* at 0 when it returns, whatever the counter was when the call began, and the
\* call made next (one caller at a time) does not begin with the cooldown
\* sleep.
FailureReset ==
  [][\A t \in Tasks :
       /\ (task'[t].pc = "done" /\ task'[t].result.kind = "resolved")
          => sessionData'.consecutiveFailures = 0
       /\ (StartsCall(t) /\ net.calls > 0 /\ net.streak = 0)
          => /\ sessionData.consecutiveFailures = 0
             /\ task'[t].pc # "cooldown"]_vars

FailureResetWitness ==
  \E t \in Tasks :
    /\ task[t].pc = "done"
    /\ task[t].result.kind = "resolved"
    /\ task[t].hs = <<>>
    /\ task[t].attempt = 1
    /\ net.streak >= 1
    /\ sessionData.consecutiveFailures = 0

\* C13: a call whose data request is answered 200 with records resolves with
\* that response body as it came, in the step in which the response arrives;
\* it has issued one data request per attempt up to that one, and from then to
\* its return it issues no request and sleeps no backoff.
SuccessPath ==
  [][\A t \in Tasks :
       /\ ( /\ task[t].pc = "await" /\ task[t].req = "data"
            /\ task'[t].pc # "await"
            /\ task'[t].resp.status = 200
            /\ task'[t].resp.body = "records" )
          => /\ task'[t].pc = "done"
             /\ task'[t].result = [kind |-> "resolved",
                                   data |-> task'[t].resp.body]
             /\ task'[t].nData + task'[t].nSessFail = task'[t].attempt
       /\ (task[t].pc = "done" /\ task'[t] # task[t])
          => /\ task'[t] = IdleTask
             /\ net'.lastIssue = net.lastIssue
             /\ lastRequestTime' = lastRequestTime
             /\ now' = now]_vars

SuccessPathWitness ==
  \E t \in Tasks :
    /\ task[t].pc = "done"
    /\ task[t].result = [kind |-> "resolved", data |-> "records"]
    /\ task[t].attempt = 2
    /\ task[t].nData = 2

\* C14: every failure inside initializeNSESession adds one to
\* consecutiveFailures and is thrown to fetchOptionChain; every failed attempt
\* of fetchOptionChain, a failed session included, adds one in its catch and is
\* either retried or thrown to the caller with the cause it was raised with.
\* A call that made an attempt ends resolved only when its last attempt got a
\* success response, and rejected otherwise.
NoSwallowedFailures ==
  [][\A t \in Tasks :
       /\ ( /\ task[t].pc = "await"
            /\ task[t].req \in {"home", "quote", "chain"}
            /\ task'[t].pc \notin {"await", "delay1", "delay2", "delay3"} )
          => /\ task'[t].pc = "sessThrown"
             /\ task'[t].error.cause # "none"
             /\ sessionData'.consecutiveFailures =
                  sessionData.consecutiveFailures + 1
             /\ sessionData'.cookies = sessionData.cookies
       /\ (task[t].pc = "sessThrown" /\ task'[t].pc # "sessThrown")
          => /\ task'[t].pc \in {"backoff", "done"}
             /\ task'[t].error = task[t].error
             /\ sessionData'.consecutiveFailures =
                  sessionData.consecutiveFailures + 1
       /\ ( /\ task[t].pc = "await" /\ task[t].req = "data"
            /\ task'[t].pc # "await"
            /\ DataCause(task'[t].resp) # "none" )
          => /\ task'[t].pc \in {"backoff", "done"}
             /\ task'[t].error.cause = DataCause(task'[t].resp)
             /\ sessionData'.consecutiveFailures =
                  sessionData.consecutiveFailures + 1
       /\ (task'[t].pc = "done" /\ task'[t].retries >= 1)
          => IF task'[t].error = NoError
             THEN /\ task'[t].result.kind = "resolved"
                  /\ DataCause(task'[t].resp) = "none"
             ELSE task'[t].result = [kind |-> "rejected",
                                     data |-> task'[t].error.cause]]_vars

NoSwallowedFailuresWitness ==
  \E t \in Tasks :
    /\ task[t].pc = "done"
    /\ task[t].result.kind = "rejected"
    /\ task[t].error.cause = "NoCookies"
    /\ task[t].nSessFail = 2
    /\ sessionData.consecutiveFailures = 4

\* C16: a handshake goes on past a step, and stores its token, only when that
\* step was answered with status 200.
HandshakeStatusCheck ==
  \A t \in Tasks :
    \A i \in 1..Len(task[t].pageStatus) : task[t].pageStatus[i] = 200

\* C20: the backoff timer set between two attempts of a call is longer than
\* MIN_REQUEST_GAP, whatever the attempt and whatever the random draw.
BackoffAboveRateFloor ==
  [][\A t \in Tasks :
       (task'[t].pc = "backoff" /\ task[t].pc # "backoff")
       => task'[t].wake - now > MIN_REQUEST_GAP]_vars

BackoffAboveRateFloorWitness ==
  \E t \in Tasks :
    /\ task[t].pc = "backoff"
    /\ task[t].attempt = MaxBackoffAttempts
    /\ task[t].wake - now = BACKOFF_BASE

\* the step in which the loop of autoFetchJob takes the outcome of the fetch
\* for symbol number i
JobTakes(i) ==
  /\ task["cron"].pc = "done"
  /\ net.job.i = i
  /\ net' # net

\* C18: autoFetchJob never rejects.  Whatever the outcome of the fetch and of
\* the aggregation for one symbol, the job goes on to call fetchOptionChain
\* for the next symbol, and it ends resolved after the last one, having tried
\* every symbol.  At a cron tick with the market open a new job starts,
\* however many fetches have failed before.
JobFailureIsolation ==
  /\ []((now % CRON_PERIOD = 0 /\ net.job.lastTick # now)
          => (net.job.i = 0 /\ ENABLED CronTick))
  /\ [][/\ net'.job.settled # "rejected"
        /\ JobTakes(1)
           => /\ net'.job.i = 2
              /\ net'.job.settled = "pending"
              /\ net'.calls = net.calls + 1
              /\ task'["cron"].pc \notin {"idle", "done"}
        /\ JobTakes(2)
           => /\ net'.job.i = 0
              /\ net'.job.settled = "resolved"
              /\ Len(net'.job.outcomes) = Len(Symbols)
        /\ ( /\ now % CRON_PERIOD = 0
             /\ net.job.lastTick # now
             /\ net'.job.lastTick = now
             /\ net'.calls # net.calls )
           => /\ net'.job.i = 1
              /\ task'["cron"].pc \notin {"idle", "done"}]_vars

JobFailureIsolationWitness ==
  /\ net.job.i = 1
  /\ net.job.lastTick = 2 * CRON_PERIOD
  /\ net.streak = 2
  /\ task["cron"].pc # "idle"

\* C15: a caller whose session handshake failed (the landing request failed
\* or brought no set-cookie header) gets no token and sends no data request.
NoCookiesIsError ==
  \A t \in Tasks :
    task[t].nSessFail > 0
    => /\ task[t].cookies = NullToken
       /\ task[t].nData = 0

\* C17: every call of the fetch entry point that has started eventually
\* resolves or rejects.
BoundedFailure ==
  \A t \in Tasks : (task[t].pc # "idle") ~> (task[t].pc = "done")

\* C19: when the fetch behind a GET /api/pcr/:symbol request has failed, the
\* answer carries success = false and an error message and none of the PCR
\* figures; fetchPCRData of server.js never rejects, and resolves to the
\* failure value whenever an error was caught.
FailureSurfaced ==
  /\ (net.reply # NoReply /\ net.reply.fetchFailed)
     => /\ ~net.reply.success
        /\ net.reply.error # "none"
        /\ ~net.reply.pcr
  /\ \A t \in Tasks :
       net.variant = "server"
       => /\ task[t].result.kind # "rejected"
          /\ (task[t].pc = "done" /\ task[t].error.cause # "none")
             => task[t].result = [kind |-> "resolved", data |-> "failure"]

FailureSurfacedWitness ==
  /\ net.variant = "part_001"
  /\ net.reply.status = 500
  /\ net.reply.fetchFailed
  /\ net.reply.error = "Blocked"

\* C21: within one call the delay slept after attempt n + 1 is never smaller
\* than the delay slept after attempt n, whatever the random draws.
BackoffMonotone ==
  [][(/\ task["cron"].pc = "caught"
      /\ task'["cron"].pc = "backoff"
      /\ task["cron"].wake # NullTime)
        => task'["cron"].wake - now >= task["cron"].wake - now]_vars

\* C22: a tick starts a fetch only if the market-hours predicate holds at that
\* tick, and in server.js only at a tick whose minute is a multiple of 5; a
\* tick at which the predicate is false starts no call, issues no upstream
\* request and appends nothing to the history, and every call of the
\* schedule belongs to a job started at a tick with the market open.
MarketHoursGating ==
  /\ [](net.job.i # 0 => net.job.open)
  /\ [](net.variant = "server" /\ (\E t \in Tasks : task[t].pc # "idle")
          => /\ net.pcrJob.running
             /\ net.pcrJob.open
             /\ getMinutes(net.pcrJob.lastTick) % 5 = 0)
  /\ [][/\ net'.job.lastTick # net.job.lastTick
           => IF net'.job.open
              THEN net'.job.i = 1 /\ net'.calls = net.calls + 1
              ELSE /\ task' = task
                   /\ lastRequestTime' = lastRequestTime
                   /\ net'.calls = net.calls
                   /\ net'.lastIssue = net.lastIssue
                   /\ net'.job.i = 0
                   /\ net'.job.outcomes = net.job.outcomes
        /\ net'.lastIssue # net.lastIssue
           => net.job.i # 0 /\ net.job.open
        /\ net'.pcrJob.lastTick # net.pcrJob.lastTick
           => IF net'.pcrJob.open /\ getMinutes(now) % 5 = 0
              THEN /\ \A t \in Tasks : task'[t].pc # "idle"
                   /\ net'.calls = net.calls + Cardinality(Tasks)
              ELSE /\ task' = task
                   /\ net'.calls = net.calls
                   /\ net'.todayHistory.NIFTY <= net.todayHistory.NIFTY
                   /\ net'.todayHistory.BANKNIFTY
                        <= net.todayHistory.BANKNIFTY
        /\ \/ net'.todayHistory.NIFTY > net.todayHistory.NIFTY
           \/ net'.todayHistory.BANKNIFTY > net.todayHistory.BANKNIFTY
           => net.pcrJob.running /\ net.pcrJob.open]_vars

\* a tick with the market closed, after a job of an earlier tick has run
MarketHoursGatingWitness ==
  \/ /\ net.variant = "part_001"
     /\ net.job.lastTick = now
     /\ ~net.job.open
     /\ Len(net.job.outcomes) = Len(Symbols)
     /\ net.lastIssue # InitNet.lastIssue
  \/ /\ net.variant = "server"
     /\ net.pcrJob.lastTick = now
     /\ ~net.pcrJob.running
     /\ net.todayHistory.NIFTY > 0
     /\ \/ ~net.pcrJob.open
        \/ net.pcrJob.open /\ getMinutes(now) % 5 # 0

\* C23: for every UTC weekday and minute of the day the fixed-offset variants
\* of the market-hours predicate return the same value, and that value is
\* true exactly when the time shifted by +5:30 falls on Monday..Friday with
\* the minute of the day in 09:15..15:30, both ends included.
MarketHoursPredicate ==
  task["cron"].pc = "checked" =>
    LET ist == now + 5 * HOUR + 30 * MINUTE
        istDay == (ist \div DAY) % 7
        istMinuteOfDay == (ist % DAY) \div MINUTE
        expected == /\ istDay \in 1..5
                    /\ istMinuteOfDay >= 9 * 60 + 15
                    /\ istMinuteOfDay <= 15 * 60 + 30
    IN /\ task["cron"].result.part_000 = expected
       /\ task["cron"].result.part_001 = expected
       /\ task["cron"].result.server = expected

\* Friday 15:30 IST, the last minute of the week's trading, is open in every
\* variant
MarketHoursPredicateWitness ==
  /\ task["cron"].pc = "checked"
  /\ getUTCDay(now) = 5
  /\ getUTCHours(now) = 10
  /\ getUTCMinutes(now) = 0
  /\ task["cron"].result.part_000
  /\ task["cron"].result.part_001
  /\ task["cron"].result.server

\* C24: the stored token is the first ';'-delimited segment of each
\* set-cookie directive of the landing response, joined by '; ', and holds no
\* cookie attribute; so is the token a call sends with its data request.
TokenDerivation ==
  LET Derived == {CookieString(r.setCookie) : r \in HomeResponses}
  IN /\ sessionData.cookies \in {NullToken} \cup Derived
     /\ \A t \in Tasks :
          task[t].pc = "srvData" => task[t].cookies \in Derived

\* C25: at most one autoFetchJob is in flight at any time: a tick or a
\* POST /api/trigger that arrives while a job is running starts no second,
\* overlapping job.
SingleWorker ==
  Cardinality({t \in Tasks : net.jobs[t].i # 0}) <= 1

\* C26: a handshake requests the landing page, the quote page and the
\* option-chain page strictly in this order; each request follows its own
\* waitForRateLimit, which has just stamped the request clock; each warm-up
\* carries the token derived from the landing response; and the store is
\* written only after the last warm-up succeeded and the final delay elapsed.
HandshakeOrder ==
  /\ [](\A t \in Tasks :
          /\ Len(task[t].hs) <= Len(Handshake)
          /\ task[t].hs = SubSeq(Handshake, 1, Len(task[t].hs)))
  /\ [][\A t \in Tasks :
          /\ task[t].pc # "await" /\ task'[t].pc = "await"
             => /\ task[t].pc = "gateRet"
                /\ task'[t].req = task[t].req
                /\ lastRequestTime = now
                /\ task'[t].req \in {"quote", "chain"}
                   => /\ task'[t].cookieString # NullToken
                      /\ task'[t].cookieString
                           = CookieString(task'[t].setCookie)
                      /\ Len(task'[t].pageStatus) = Len(task'[t].hs) - 1
          /\ (task[t].pc = "delay3" /\ task'[t].pc # "delay3")
             => /\ task[t].hs = Handshake
                /\ Len(task[t].pageStatus) = Len(Handshake)
                /\ now >= task[t].wake
                /\ sessionData'.cookies = task[t].cookieString]_vars
  /\ [][\/ sessionData'.cookies # sessionData.cookies
        \/ sessionData'.timestamp # sessionData.timestamp
        => \E t \in Tasks : /\ task[t].pc = "delay3"
                            /\ task'[t].pc = "gotSession"
                            /\ now >= task[t].wake]_vars

\* a handshake has gone through all three requests and written the store
HandshakeOrderWitness ==
  /\ task["cron"].pc = "gotSession"
  /\ task["cron"].hs = Handshake
  /\ task["cron"].pageStatus = <<200, 200, 200>>
  /\ task["cron"].cookieString = CookieString(JarA)
  /\ sessionData.cookies = CookieString(JarA)

\* C27: within one call a request is issued only when no request of the call
\* is in flight; attempt n + 1 starts only after attempt n has failed and its
\* backoff has fully elapsed; and after the final failed attempt no backoff is
\* slept: the call rejects in the step in which that attempt fails.
SerializedRetries ==
  [][\A t \in Tasks :
       /\ task'[t].pc = "await" /\ task'[t] # task[t]
          => task[t].pc = "gateRet"
       /\ task[t].attempt >= 1 /\ task'[t].attempt = task[t].attempt + 1
          => /\ task[t].pc = "backoff"
             /\ task[t].error # NoError
             /\ task[t].error.attempt = task[t].attempt
             /\ now >= task[t].wake
             /\ now - net.lastIssue >= BACKOFF_BASE
       /\ task[t].pc # "backoff" /\ task'[t].pc = "backoff"
          => /\ task'[t].attempt < task'[t].retries
             /\ task'[t].wake >= now + BACKOFF_BASE
       /\ task[t].pc # "done" /\ task'[t].pc = "done"
            /\ task'[t].result.kind = "rejected"
          => /\ task[t].pc \in {"await", "sessThrown"}
             /\ task[t].attempt = task[t].retries
             /\ now' = now]_vars

\* a call of three attempts has slept two backoffs and rejected
SerializedRetriesWitness ==
  /\ task["cron"].pc = "done"
  /\ task["cron"].result.kind = "rejected"
  /\ task["cron"].attempt = 3
  /\ task["cron"].retries = 3

\* C28: a successful handshake sets the token, the acquisition time and
\* consecutiveFailures = 0 in one step, and the token or the time never
\* changes in any other step; so a forced refresh that succeeds in the middle
\* of a failing call brings the streak back to 0.
StoreUpdate ==
  /\ [][\A t \in Tasks :
          task[t].pc = "delay3" /\ task'[t].pc # "delay3"
          => /\ task'[t].pc = "gotSession"
             /\ sessionData' = [cookies |-> task[t].cookieString,
                                timestamp |-> task[t].sNow,
                                consecutiveFailures |-> 0]]_vars
  /\ [][\/ sessionData'.cookies # sessionData.cookies
        \/ sessionData'.timestamp # sessionData.timestamp
        => /\ sessionData'.consecutiveFailures = 0
           /\ \E t \in Tasks : /\ task[t].pc = "delay3"
                               /\ sessionData'.cookies = task[t].cookieString
                               /\ sessionData'.timestamp = task[t].sNow]_vars

\* the forced refresh of a second attempt has just succeeded: the failure of
\* the first attempt is no longer counted
StoreUpdateWitness ==
  /\ task["cron"].pc = "gotSession"
  /\ task["cron"].force
  /\ task["cron"].attempt = 2
  /\ task["cron"].hs = Handshake
  /\ sessionData.cookies = task["cron"].cookieString
  /\ sessionData.timestamp = task["cron"].sNow
  /\ sessionData.consecutiveFailures = 0

\* C29: the cooldown test is made once per call, at entry: a call starts its
\* cooldown sleep only in the step in which it is called, never between
\* attempts, even when the counter has reached the threshold during the call;
\* and when the sleep ends the counter is 0 before attempt 1 starts.
CooldownOnce ==
  [][\A t \in Tasks :
       /\ task[t].pc # "cooldown" /\ task'[t].pc = "cooldown"
          => /\ task[t].pc = "idle"
             /\ ShouldCooldown(sessionData.consecutiveFailures)
       /\ task[t].pc = "cooldown" /\ task'[t].pc # "cooldown"
          => /\ now >= task[t].wake
             /\ sessionData'.consecutiveFailures = 0
             /\ task'[t].attempt = 1
       /\ task[t].pc = "backoff" /\ task'[t].pc # "backoff"
          => /\ task'[t].pc # "cooldown"
             /\ sessionData'.consecutiveFailures
                  = sessionData.consecutiveFailures]_vars

\* a second attempt is under way with the counter at the threshold or above,
\* and no cooldown has been slept for it
CooldownOnceWitness ==
  /\ task["cron"].attempt = 2
  /\ task["cron"].pc \in {"gateWait", "await"}
  /\ ShouldCooldown(sessionData.consecutiveFailures)

StreakGrowth ==
  /\ [](\A t \in Tasks :
          /\ net.calls = 1
          /\ sessionData.timestamp = NullTime
          /\ task[t].pc \in {"backoff", "done"}
          => sessionData.consecutiveFailures = 2 * task[t].nSessFail)
  /\ [][\A t \in Tasks :
          /\ task[t].pc # "sessThrown" /\ task'[t].pc = "sessThrown"
             => sessionData'.consecutiveFailures
                  = sessionData.consecutiveFailures + 1
          /\ task[t].pc = "sessThrown" /\ task'[t].pc # "sessThrown"
             => /\ task'[t].pc \in {"backoff", "done"}
                /\ sessionData'.consecutiveFailures
                     = sessionData.consecutiveFailures + 1
          /\ task[t].pc = "await" /\ task[t].req = "data"
               /\ task'[t].pc \in {"backoff", "done"}
               /\ task'[t].result.kind # "resolved"
             => sessionData'.consecutiveFailures
                  = sessionData.consecutiveFailures + 1]_vars

\* two attempts of the first call have failed in the handshake: the counter
\* is at 4
StreakGrowthWitness ==
  /\ net.calls = 1
  /\ task["cron"].pc = "done"
  /\ task["cron"].result.kind = "rejected"
  /\ task["cron"].nSessFail = 2
  /\ sessionData.consecutiveFailures = 4

\* C32: with two attempts or more per call, every handshake succeeding and
\* every data request failing, consecutiveFailures is exactly 1 each time a
\* fetchOptionChain call rejects, and in a sequence of such calls no call
\* takes the cooldown branch.
StreakAfterFailedFetch ==
  /\ [](task["cron"].pc = "done"
          => /\ task["cron"].result.kind = "rejected"
             /\ sessionData.consecutiveFailures = 1)
  /\ [](task["cron"].pc # "cooldown")
  /\ [][StartsCall("cron")
        => ~ShouldCooldown(sessionData.consecutiveFailures)]_vars

\* the fourth call in a row has failed, and the counter is at 1 still
StreakAfterFailedFetchWitness ==
  /\ task["cron"].pc = "done"
  /\ task["cron"].result.kind = "rejected"
  /\ net.calls = MaxStreakCalls
  /\ net.streak = MaxStreakCalls - 1
  /\ sessionData.consecutiveFailures = 1

\* C33: the timestamp stored by a successful handshake is the clock value
\* read when initializeNSESession was entered, before any rate-gate wait,
\* request or delay; a later initializeNSESession(false) at time t is a cache
\* hit exactly when t minus that entry time is below ttl; and the validity
\* left when the handshake returns is ttl minus the handshake's duration.
AcquiredAtEntry ==
  [][\A t \in Tasks :
       /\ EntersSession(t)
          => /\ task'[t].sNow = now
             /\ task'[t].hs = <<>>
             /\ ~task'[t].force
                => (task'[t].pc = "gotSession"
                      <=> /\ sessionData.cookies # NullToken
                          /\ now - sessionData.timestamp < SESSION_TTL)
       /\ ~EntersSession(t) => task'[t].sNow = task[t].sNow
                                 \/ task'[t].pc = "idle"
       /\ CompletesHandshake(t)
          => /\ sessionData'.timestamp = task[t].sNow
             /\ now - task[t].sNow >= HOME_DELAY + QUOTE_DELAY + CHAIN_DELAY
             /\ SESSION_TTL - (now - sessionData'.timestamp)
                  <= SESSION_TTL - (HOME_DELAY + QUOTE_DELAY + CHAIN_DELAY)
             /\ SessionValid(now)']_vars

\* a call finds the session expired although it was stored less than ttl
\* ago: its age counts from the entry of the handshake that acquired it
AcquiredAtEntryWitness ==
  /\ task["cron"].pc \in {"gateWait", "gateRet"}
  /\ task["cron"].req = "home"
  /\ ~task["cron"].force
  /\ task["cron"].old.cookies # NullToken
  /\ task["cron"].sNow - task["cron"].old.timestamp >= SESSION_TTL
  /\ task["cron"].sNow - task["cron"].old.timestamp
       < SESSION_TTL + HOME_DELAY + QUOTE_DELAY + CHAIN_DELAY

\* C34: under any interleaving of concurrent initializeNSESession calls the
\* stored timestamp never decreases: a handshake that completes later never
\* overwrites the store with an acquisition time earlier than the stored one.
MonotoneSessionAge ==
  [][sessionData'.timestamp >= sessionData.timestamp]_vars

\* C35: in every reachable state sessionData.cookies is null if and only if
\* sessionData.timestamp is null: no interleaving shows one written for a
\* handshake and the other not.
TokenAndTimestamp ==
  (sessionData.cookies = NullToken) <=> (sessionData.timestamp = NullTime)

TokenAndTimestampWitness ==
  /\ sessionData.cookies # NullToken
  /\ sessionData.timestamp # NullTime
  /\ \E t \in Tasks :
       task[t].pc \in {"delay1", "delay2", "delay3", "srvHome"}

\* C36: a failed handshake leaves the session untouched: when
\* initializeNSESession rejects, whatever the step that failed (landing page,
\* no cookies, a warm-up page), sessionData.cookies and sessionData.timestamp
\* are what they were when the call was entered.
FailedHandshakeFrame ==
  \A t \in Tasks :
    task[t].pc = "sessThrown"
    => /\ sessionData.cookies = task[t].old.cookies
       /\ sessionData.timestamp = task[t].old.timestamp

FailedHandshakeFrameWitness ==
  \E t \in Tasks :
    /\ task[t].pc = "sessThrown"
    /\ task[t].old.cookies # NullToken
    /\ Len(task[t].hs) >= 2
    /\ sessionData.cookies = task[t].old.cookies
    /\ sessionData.timestamp = task[t].old.timestamp

\* C37: every payload that fetchOptionChain returns as a success (status 200
\* with a truthy records field, whether or not records.data is present) is
\* processed by calculatePCR without raising an error.
AcceptedAggregates ==
  net.variant = "part_001" => net.aggregate.out # "threw"

\* C38: fetchOptionChain(symbol, k) with k <= 0 issues no upstream request
\* and performs no session check, and resolves normally with undefined: such
\* a call is only ever in its cooldown sleep or settled with undefined, it has
\* not entered initializeNSESession, and none of its steps sends a request or
\* touches the session.
ZeroAttempts ==
  /\ [](\A t \in Tasks :
          task[t].pc # "idle" /\ task[t].retries <= 0
          => /\ task[t].pc \in {"cooldown", "done"}
             /\ task[t].pc = "done" => task[t].result.kind = "undefined"
             /\ task[t].sNow = NullTime
             /\ task[t].hs = <<>>
             /\ task[t].nData = 0
             /\ task[t].req = "none")
  /\ [][\A t \in Tasks :
          task'[t].pc # "idle" /\ task'[t].retries <= 0
          => /\ lastRequestTime' = lastRequestTime
             /\ net'.lastIssue = net.lastIssue
             /\ sessionData'.cookies = sessionData.cookies
             /\ sessionData'.timestamp = sessionData.timestamp]_vars

ZeroAttemptsWitness ==
  \E t \in Tasks :
    /\ task[t].pc = "done"
    /\ task[t].retries < 0
    /\ task[t].result.kind = "undefined"
    /\ net.calls = MaxCalls

\* C39: GET /api/pcr/:symbol with a symbol other than NIFTY or BANKNIFTY
\* (after upper-casing) answers 400 without issuing any upstream request,
\* passing the rate gate, sleeping a cooldown, or changing sessionData or
\* lastRequestTime: the request is answered in the step that receives it and
\* no frame is started; a symbol that is valid in any letter case is not
\* answered 400.
InvalidSymbolRejected ==
  [][net'.calls = net.calls + 1
     => IF net'.symbol \in {<<"S", "E", "N", "S", "E", "X">>,
                            <<"n", "i", "f", "t", "y", "5", "0">>,
                            <<"b", "a", "n", "k">>}
        THEN /\ net'.reply.status = 400
             /\ net'.reply.error = "Invalid symbol"
             /\ sessionData' = sessionData
             /\ lastRequestTime' = lastRequestTime
             /\ net'.lastIssue = net.lastIssue
             /\ task' = task
             /\ now' = now
        ELSE /\ net'.reply = net.reply
             /\ task'["http"].pc # "idle"]_vars

InvalidSymbolRejectedWitness ==
  /\ net.symbol = <<"n", "i", "f", "t", "y", "5", "0">>
  /\ net.reply.status = 400
  /\ sessionData.cookies # NullToken
  /\ net.calls = MaxHandlerCalls

====
